---- MODULE Spec2Model ----
(***************************************************************************)
(* A model of mixpanel/configmanager: the state manager (model/model.go),  *)
(* the ConfigMap file watcher (configmap watcher, CmWatcher) and the       *)
(* filesystem / fsnotify environment they run against.                     *)
(*                                                                         *)
(* Processes:                                                              *)
(*   - the constructor (NewStateManager / init), variable ipc;             *)
(*   - the watcher goroutine (Start's go func: startWatcher, with the      *)
(*     callback loadConfig / loadState inlined), variable wpc;             *)
(*   - the caller of Close (Close / Stop), variable cpc;                   *)
(*   - readers calling GetKey, variable rpc;                               *)
(*   - a receiver on the update channel, variable rcv;                     *)
(*   - the callers of CallCounter.Incr and Wait (testutil), variables      *)
(*     incrpc and waitpc;                                                  *)
(*   - the environment: the file at the watched path, the kernel watch and *)
(*     fsnotify's event queue and reader goroutine.                        *)
(* A step is one access to shared memory (lock, condition variable,        *)
(* channel, file, snapshot pointer); local computation is folded into it.  *)
(***************************************************************************)
EXTENDS Integers, Sequences, FiniteSets, TLC

\* ------------------------------------------------------------------ bounds

\* Number of changes the environment makes to the file.
MaxChanges == 2

\* Number of concurrent GetKey callers.
NumReaders == 1

\* Number of (sequential) Close calls.
MaxCloses == 2

\* Number of (sequential) typed getter calls.
MaxCalls == 2

\* Number of times the file of typed values is rewritten.
MaxTypedWrites == 1

\* Number of values set on the test client.
MaxSets == 2

\* Number of goroutines that call Wait on a CallCounter.
NumWaiters == 2

\* Number of goroutines (besides a watcher's loop) that call Incr.
NumIncrs == 2

\* Number of Incr calls those goroutines make in all.
MaxIncrs == 3

\* Largest count a Wait is called with.
MaxExpected == 3

Readers == 1..NumReaders

Waiters == 1..NumWaiters

\* The callers of Incr: 0 is the loop of the test-support watcher, the others
\* are goroutines of a test.
TheLoop == 0

Goroutines == 1..NumIncrs

Incrementers == {TheLoop} \cup Goroutines

\* ------------------------------------------------------- files and parsing

\* No file at the watched path.
NoFile == [kind |-> "absent", elems |-> <<>>]

\* File contents: a JSON array of {key, value} objects, or text that is not JSON.
DocA == [kind |-> "array", elems |-> << [t |-> "obj", key |-> "foo", value |-> "1"],
                                        [t |-> "obj", key |-> "bar", value |-> "3"] >>]

DocB == [kind |-> "array", elems |-> << [t |-> "obj", key |-> "foo", value |-> "2"] >>]

DocBad == [kind |-> "text", elems |-> <<>>]

\* Two records share the key foo.
DocDup == [kind |-> "array", elems |-> << [t |-> "obj", key |-> "foo", value |-> "1"],
                                          [t |-> "obj", key |-> "bar", value |-> "3"],
                                          [t |-> "obj", key |-> "foo", value |-> "2"] >>]

Docs == {DocA, DocB, DocBad, DocDup}

\* JSON of another shape: an array with a null element, an array with a
\* number element, an object, and the document null.
DocNull == [kind |-> "array", elems |-> << [t |-> "obj", key |-> "foo", value |-> "1"],
                                           [t |-> "null", key |-> "", value |-> ""] >>]

DocNum == [kind |-> "array", elems |-> << [t |-> "obj", key |-> "foo", value |-> "1"],
                                          [t |-> "num", key |-> "", value |-> ""] >>]

DocObj == [kind |-> "object", elems |-> <<>>]

DocNullTop == [kind |-> "null", elems |-> <<>>]

ShapeDocs == {DocA, DocBad, DocNull, DocNum, DocObj, DocNullTop}

\* The nil *Config.
NilConfig == [nil |-> TRUE]

Keys == {"foo", "bar"}

\* A Go value held in an interface{}: its dynamic type and its value (in its
\* printed form). The nil memo (Config.parsedValue == nil) is the nil interface.
GoVal(ty, v) == [ty |-> ty, v |-> v]

NoMemo == GoVal("nil", "nil")

\* The watched path (stateManager.filePath / CmWatcher.Path).
Path == "configs.json"

\* ioutil.ReadFile(filePath): an error when the path is absent.
ReadFile(f) ==
    IF f = NoFile THEN [err |-> TRUE, data |-> NoFile] ELSE [err |-> FALSE, data |-> f]

\* An index that keeps the first Config entered under a key.
CachePutKeepFirst(cache, key, pos) ==
    [k \in (DOMAIN cache) \cup {key} |-> IF k \in DOMAIN cache THEN cache[k] ELSE pos]

\* cache[cfg.Key] = cfg, for one Config (a map from key to position in Configs).
CachePut(cache, key, pos) ==
    [k \in (DOMAIN cache) \cup {key} |-> IF k = key THEN pos ELSE cache[k]]

RECURSIVE buildCacheFrom(_, _, _)
\* The range loop of buildCache, from Configs[i] on.
buildCacheFrom(configs, cache, i) ==
    IF i > Len(configs) THEN cache
    ELSE buildCacheFrom(configs, CachePut(cache, configs[i].Key, i), i + 1)

\* A buildCache whose loop stops one element early.
buildCacheSkipLast(configs, cache) ==
    buildCacheFrom(SubSeq(configs, 1, Len(configs) - 1), cache, 1)

\* State.buildCache: every Config of the list is entered in the key index, in
\* list order, so the last occurrence of a key wins.
buildCache(configs, cache) ==
    buildCacheFrom(configs, cache, 1)

\* make(map[string]*Config): the empty key index.
EmptyCache == [k \in {} |-> 0]

Freed == [Configs |-> <<>>, cache |-> EmptyCache, freed |-> TRUE]

\* Memory reclamation: the States no root refers to are gone.
Collect(h, roots) == [i \in 1..Len(h) |-> IF i \in roots THEN h[i] ELSE Freed]

\* State.get: the Config indexed under key (its position), or ErrNotFound.
get(s, key) ==
    IF key \in DOMAIN s.cache
    THEN [err |-> "nil", pos |-> s.cache[key]]
    ELSE [err |-> "ErrNotFound", pos |-> 0]

\* -------------------------------------------------- raw values and types

\* Documents whose raw values have the JSON shapes the typed getters meet.
DocT1 == [kind |-> "array", elems |-> << [t |-> "obj", key |-> "foo", value |-> "true"],
                                         [t |-> "obj", key |-> "bar", value |-> "256"] >>]

DocT2 == [kind |-> "array", elems |-> << [t |-> "obj", key |-> "foo", value |-> "1.5"],
                                         [t |-> "obj", key |-> "bar", value |-> "\"a\""] >>]

DocT3 == [kind |-> "array", elems |-> << [t |-> "obj", key |-> "foo", value |-> "{\"3\":{}}"],
                                         [t |-> "obj", key |-> "bar", value |-> "{\"x\":{}}"] >>]

DocT4 == [kind |-> "array", elems |-> << [t |-> "obj", key |-> "foo", value |-> "null"] >>]

TypedDocs == {DocB, DocT1, DocT2, DocT3, DocT4}

\* The flags of TestFeatureEnabled: foo at probability 0.9, bar at 0.1.
DocF == [kind |-> "array", elems |-> << [t |-> "obj", key |-> "foo", value |-> "0.9"],
                                        [t |-> "obj", key |-> "bar", value |-> "0.1"] >>]

\* A float64 in tenths, from its printed form.
Tenths(v) ==
    CASE v = "0" -> 0 [] v = "0.1" -> 1 [] v = "0.9" -> 9 [] v = "1" -> 10
      [] v = "1.5" -> 15 [] v = "2" -> 20 [] v = "3" -> 30 [] v = "256" -> 2560

\* Values of c.rng.Float64(), which lie in [0, 1), in tenths: 0.8 is the
\* draw of the tests' testrnd.
Draws == {0, 1, 8, 9}

\* rollDie's calls of GetFloat64: defaultValue is 1.0 when enabledByDefault
\* and 0 otherwise.
FlagCalls == [g : {"GetFloat64"}, key : Keys, def : {"0", "1"}, arg : {"rollDie"}]

\* The raw values a test sets on the test client.
Raws == {"true", "2", "256", "1.5", "\"a\"", "{\"3\":{}}", "null"}

\* JSON integer literals and the numbers they denote.
IntLits == {"1", "2", "3", "256"}

IntOf(raw) == CASE raw = "1" -> 1 [] raw = "2" -> 2 [] raw = "3" -> 3 [] raw = "256" -> 256

\* JSON number literals with a fraction.
FracLits == {"1.5", "0.9", "0.1"}

\* The typed getters, the Go type each deserializes into, and the arguments
\* they are called with (the default, and the member asked for).
Getters == {"GetBoolean", "GetInt64", "GetFloat64", "GetString", "GetByte",
            "IsProjectWhitelisted", "IsTokenWhitelisted"}

TypeOf(g) ==
    CASE g = "GetBoolean" -> "bool"
      [] g = "GetInt64" -> "int64"
      [] g = "GetFloat64" -> "float64"
      [] g = "GetString" -> "string"
      [] g = "GetByte" -> "uint8"
      [] g = "IsProjectWhitelisted" -> "map[int64]struct{}"
      [] g = "IsTokenWhitelisted" -> "map[string]struct{}"

DefaultsOf(g) ==
    CASE g \in {"GetBoolean", "IsProjectWhitelisted", "IsTokenWhitelisted"} -> {"true", "false"}
      [] g = "GetInt64" -> {"5"}
      [] g = "GetFloat64" -> {"5.5"}
      [] g = "GetString" -> {"what"}
      [] g = "GetByte" -> {"7"}

ArgsOf(g) ==
    CASE g = "IsProjectWhitelisted" -> {"3", "4"}
      [] g = "IsTokenWhitelisted" -> {"x", "3"}
      [] OTHER -> {"-"}

Calls == UNION {[g : {g}, key : Keys, def : DefaultsOf(g), arg : ArgsOf(g)] : g \in Getters}

NoCall == [g |-> "none", key |-> "foo", def |-> "-", arg |-> "-"]

\* The outcome of a deserialization: the value, or an error.
ParseOk(ty, v) == [ok |-> TRUE, val |-> GoVal(ty, v)]

ParseErr == [ok |-> FALSE, val |-> NoMemo]

\* json.Unmarshal(raw, &val) for a val of Go type ty. JSON null leaves val at
\* its zero value (a map becomes the nil map) and is no error; a number with a
\* fraction or out of the range of an integer type, and a value of another
\* JSON kind, are errors; the keys of an object must parse as the map's key type.
unmarshalInto(raw, ty, byteMax) ==
    CASE ty = "bool" ->
           IF raw \in {"true", "false"} THEN ParseOk(ty, raw)
           ELSE IF raw = "null" THEN ParseOk(ty, "false") ELSE ParseErr
      [] ty = "int64" ->
           IF raw \in IntLits THEN ParseOk(ty, raw)
           ELSE IF raw = "null" THEN ParseOk(ty, "0") ELSE ParseErr
      [] ty = "uint8" ->
           IF raw \in IntLits
           THEN IF IntOf(raw) <= byteMax THEN ParseOk(ty, raw) ELSE ParseErr
           ELSE IF raw = "null" THEN ParseOk(ty, "0") ELSE ParseErr
      [] ty = "float64" ->
           IF raw \in IntLits \cup FracLits THEN ParseOk(ty, raw)
           ELSE IF raw = "null" THEN ParseOk(ty, "0") ELSE ParseErr
      [] ty = "string" ->
           IF raw = "\"a\"" THEN ParseOk(ty, "a")
           ELSE IF raw = "null" THEN ParseOk(ty, "") ELSE ParseErr
      [] ty = "map[int64]struct{}" ->
           IF raw = "{\"3\":{}}" THEN ParseOk(ty, "{3}")
           ELSE IF raw = "null" THEN ParseOk(ty, "{}") ELSE ParseErr
      [] ty = "map[string]struct{}" ->
           IF raw = "{\"3\":{}}" THEN ParseOk(ty, "{3}")
           ELSE IF raw = "{\"x\":{}}" THEN ParseOk(ty, "{x}")
           ELSE IF raw = "null" THEN ParseOk(ty, "{}") ELSE ParseErr

\* A deserialization that takes any integer literal for a uint8.
unmarshalFnNoRange(raw, ty) == unmarshalInto(raw, ty, 256)

\* client.unmarshalFn (json.Unmarshal): a uint8 takes 0..255.
unmarshalFn(raw, ty) == unmarshalInto(raw, ty, 255)

\* _, ok := val[member] on a deserialized whitelist.
Has(v, member) == (v = "{3}" /\ member = "3") \/ (v = "{x}" /\ member = "x")

\* What a getter returns for the value val it deserialized or found memoized:
\* the value itself, or for a whitelist whether the member asked for is in it.
View(call, val) ==
    IF call.g \in {"IsProjectWhitelisted", "IsTokenWhitelisted"}
    THEN (IF Has(val.v, call.arg) THEN "true" ELSE "false")
    ELSE val.v

\* The type switch on the memo: the dynamic types a getter takes from it.
MemoTypes(g) ==
    CASE g = "GetInt64" -> {"int64", "int32", "int"}
      [] g = "GetFloat64" -> {"float64", "float32"}
      [] OTHER -> {TypeOf(g)}

\* ------------------------------------------------------------------- state

VARIABLES
    file,       \* content of the file at Path, or NoFile
    watching,   \* the kernel watch is attached to the file now at Path
    evq,        \* fsnotify events raised and not yet received by the loop
    nChanges,   \* steps the environment has made so far (changes of the file,
                \* events sent by fsnotify for no change of the file)
    wclosed,    \* fsnotify.Watcher.Close has been called
    chClosed,   \* fsnotify's reader goroutine has closed Events and Errors
    watcher,    \* sm.watcher: "nil" or "set"
    wg,         \* CmWatcher.wg counter
    wpc,        \* watcher goroutine: position
    lcErr,      \* loadConfig: the call has failed
    lcNew,      \* loadConfig: heap index of the State being built
    event,      \* startWatcher: the event received last; NoEvent before the
                \* first and once its re-registration or callback is over
    heap,       \* every State allocated by a successful parse
    State,      \* sm.State: 0 (nil) or an index of heap
    muW,        \* sm.mu: holder of the exclusive lock, or "none"
    muR,        \* sm.mu: readers holding the shared lock
    condWait,   \* sm.cond: "none", "listed" (in the notify list), "notified"
    ipc,        \* constructor: position
    cpc,        \* caller of Close: position
    nCloses,    \* completed Close calls
    rpc,        \* readers: position
    rkey,       \* readers: key looked up
    rres,       \* readers: result of the last GetKey
    rStart,     \* readers: newest snapshot whose reload had released the lock
                \* when the call started
    released,   \* newest snapshot whose reload has released the lock
    rcv,        \* receiver on updateChan: "busy" or "recv"
    dropped,    \* a notification has been dropped since the receiver last
                \* received one
    client,     \* the Client in use: "none" (not made yet), "real", "null",
                \* "dummy" (TestClient) or "nil" (NewClient returned nil)
    dcache,     \* DummyStateManager.state.cache: raw value per key, or "absent"
    dset,       \* arguments of the last SetConfig on the test client
    nSets,      \* SetConfig calls made
    gpc,        \* caller of a typed getter: position
    gcall,      \* typed getter: the getter, key, default and member of the call
    gcfg,       \* typed getter: the *Config GetKey returned
    gpv,        \* typed getter: the value GetParsedValue returned
    graw,       \* typed getter: the raw value the call read last, or "absent"
    gsrc,       \* typed getter: the snapshot the call read last
    gval,       \* typed getter: the value deserialized
    gres,       \* typed getter: the value returned, "panic" for a nil dereference
    gunm,       \* typed getter: unmarshalFn calls of this call
    gwrote,     \* typed getter: this call has written a memo
    gStart,     \* typed getter: newest snapshot whose reload had released the
                \* lock when the call started
    nCalls,     \* typed getter calls started
    gdraw,      \* rollDie: the value drawn from c.rng, in tenths
    streak,     \* the run of completed calls of the same getter on the same
                \* key (and member) and snapshot: whether the Config had no
                \* memo when it began, its length, its unmarshalFn count (the
                \* countUnmarshal of the tests), whether the results agree
    counterN,   \* CallCounter.n
    counterL,   \* CallCounter.cond.L: the holder of the mutex, or NoHolder
    notifyList, \* CallCounter.cond: per waiter "none", "listed" (on the notify
                \* list) or "notified" (taken off it by a Broadcast)
    incrpc,     \* callers of Incr: position
    nIncrs,     \* Incr calls the test goroutines have started
    waitpc,     \* callers of Wait: position
    expected    \* callers of Wait: the argument of the call

vars == << file, watching, evq, nChanges, wclosed, chClosed, watcher, wg, wpc,
           lcErr, lcNew, event, heap, State, muW, muR, condWait, ipc, cpc, nCloses,
           rpc, rkey, rres, rStart, released, rcv, dropped,
           client, dcache, dset, nSets, gpc, gcall, gcfg, gpv, graw, gsrc, gval,
           gres, gunm, gwrote, gStart, nCalls, gdraw, streak,
           counterN, counterL, notifyList, incrpc, nIncrs, waitpc, expected >>

fsVars == << file, watching, evq, nChanges >>
fsnVars == << wclosed, chClosed >>
loadVars == << lcErr, lcNew, event >>
muVars == << muW, muR >>
readerVars == << rpc, rkey, rres, rStart >>
closerVars == << cpc, nCloses >>
rcvVars == << rcv, dropped >>
counterVars == << counterN, counterL, notifyList, incrpc, nIncrs, waitpc, expected >>
clientVars == << client, dcache, dset, nSets >>
getterVars == << gpc, gcall, gcfg, gpv, graw, gsrc, gval, gres, gunm, gwrote,
                 gStart, nCalls, gdraw, streak >>

NoCfg == [snap |-> 0, pos |-> 0, raw |-> "-"]

NoStreak == [snap |-> 0, raw |-> "absent", fresh |-> TRUE, n |-> 0, unm |-> 0,
             res |-> "-", same |-> TRUE]

NoResult == [err |-> "none", snap |-> 0, pos |-> 0]

NoEvent == [Name |-> "", Op |-> "none"]

\* Nobody holds the mutex of the CallCounter.
NoHolder == << "none", 0 >>

\* A parse that gives a Config the memo of the Config the live snapshot holds
\* under the same key.
UnmarshalKeepMemo(doc) ==
    IF doc.kind = "array"
    THEN [err |-> FALSE,
          Configs |-> [i \in 1..Len(doc.elems) |->
                         [Key |-> doc.elems[i].key,
                          RawValue |-> doc.elems[i].value,
                          parsedValue |->
                              IF State # 0 /\ doc.elems[i].key \in DOMAIN heap[State].cache
                              THEN heap[State].Configs[heap[State].cache[doc.elems[i].key]].parsedValue
                              ELSE NoMemo]]]
    ELSE [err |-> TRUE, Configs |-> <<>>]

\* json.Unmarshal(data, &State.Configs): a syntax error, a document that is
\* neither an array nor null, and an array element that is neither an object
\* nor null are errors; the document null gives the nil slice; each object of
\* the array becomes a *Config with the raw value kept unparsed and an empty
\* memo, each null of the array a nil *Config.
Unmarshal(doc) ==
    IF doc.kind = "array" /\ \A i \in 1..Len(doc.elems) : doc.elems[i].t \in {"obj", "null"}
    THEN [err |-> FALSE,
          Configs |-> [i \in 1..Len(doc.elems) |->
                         IF doc.elems[i].t = "null" THEN NilConfig
                         ELSE [Key |-> doc.elems[i].key,
                               RawValue |-> doc.elems[i].value,
                               parsedValue |-> NoMemo]]]
    ELSE IF doc.kind = "null" THEN [err |-> FALSE, Configs |-> <<>>]
    ELSE [err |-> TRUE, Configs |-> <<>>]

\* buildCache reads cfg.Key of a nil *Config: a nil pointer dereference.
NilDeref(configs) == \E i \in 1..Len(configs) : configs[i] = NilConfig

\* A State that starts from the key index of the snapshot it replaces.
NewStateMerged(configs) ==
    [Configs |-> configs,
     cache |-> IF State = 0 THEN EmptyCache ELSE heap[State].cache,
     freed |-> FALSE]

\* &State{cache: make(map[string]*Config)} with its Configs; freed marks an
\* object that nothing refers to any more and the runtime has reclaimed.
NewState(configs) == [Configs |-> configs, cache |-> EmptyCache, freed |-> FALSE]

\* The state before the constructor is called, whatever the file: nothing
\* watched, no goroutine, sm.State nil, no client made.
InitState ==
    /\ watching = FALSE
    /\ evq = <<>>
    /\ nChanges = 0
    /\ wclosed = FALSE
    /\ chClosed = FALSE
    /\ watcher = "nil"
    /\ wg = 0
    /\ wpc = "notstarted"
    /\ lcErr = FALSE
    /\ lcNew = 0
    /\ event = NoEvent
    /\ heap = <<>>
    /\ State = 0
    /\ muW = "none"
    /\ muR = {}
    /\ condWait = "none"
    /\ ipc = "new"
    /\ cpc = "idle"
    /\ nCloses = 0
    /\ rpc = [r \in Readers |-> "idle"]
    /\ rkey = [r \in Readers |-> "foo"]
    /\ rres = [r \in Readers |-> NoResult]
    /\ rStart = [r \in Readers |-> 0]
    /\ released = 0
    /\ rcv = "busy"
    /\ dropped = FALSE
    /\ counterN = 0
    /\ counterL = NoHolder
    /\ notifyList = [w \in Waiters |-> "none"]
    /\ incrpc = [p \in Incrementers |-> "idle"]
    /\ nIncrs = 0
    /\ waitpc = [w \in Waiters |-> "idle"]
    /\ expected = [w \in Waiters |-> 0]
    /\ client = "none"
    /\ dcache = [k \in Keys |-> "absent"]
    /\ dset = [key |-> "foo", raw |-> "-"]
    /\ nSets = 0
    /\ gpc = "idle"
    /\ gcall = NoCall
    /\ gcfg = NoCfg
    /\ gpv = NoMemo
    /\ graw = "absent"
    /\ gsrc = 0
    /\ gval = NoMemo
    /\ gres = "-"
    /\ gunm = 0
    /\ gwrote = FALSE
    /\ gStart = 0
    /\ nCalls = 0
    /\ gdraw = 0
    /\ streak = NoStreak

Init ==
    /\ file \in Docs \cup {NoFile}
    /\ InitState

\* ------------------------------------------------------------ environment

\* An event is raised only while a kernel watch is attached and fsnotify's
\* reader goroutine is alive.
Watched == watching /\ ~chClosed

Event(op) == [Name |-> Path, Op |-> op]

\* The file is overwritten in place (ioutil.WriteFile): IN_MODIFY, Write.
FsWrite ==
    /\ nChanges < MaxChanges
    /\ file # NoFile
    /\ \E d \in Docs :
        /\ file' = d
        /\ evq' = IF Watched THEN Append(evq, Event("Write")) ELSE evq
    /\ nChanges' = nChanges + 1
    /\ UNCHANGED << clientVars, getterVars, watching, fsnVars, watcher, wg, wpc, loadVars, heap, State,
                    muVars, condWait, ipc, closerVars, readerVars, released, rcvVars, counterVars >>

\* The file is replaced by renaming a temporary file over it (safeWriteFile):
\* the watched inode loses its link (IN_ATTRIB, Chmod) and is deleted
\* (IN_DELETE_SELF, Remove); the kernel drops the watch with the inode.
FsRename ==
    /\ nChanges < MaxChanges
    /\ file # NoFile
    /\ \E d \in Docs :
        /\ file' = d
        /\ evq' = IF Watched THEN evq \o << Event("Chmod"), Event("Remove") >> ELSE evq
    /\ watching' = FALSE
    /\ nChanges' = nChanges + 1
    /\ UNCHANGED << clientVars, getterVars, fsnVars, watcher, wg, wpc, loadVars, heap, State,
                    muVars, condWait, ipc, closerVars, readerVars, released, rcvVars, counterVars >>

\* The file is deleted: IN_DELETE_SELF, Remove; the watch goes with the inode.
FsRemove ==
    /\ nChanges < MaxChanges
    /\ file # NoFile
    /\ file' = NoFile
    /\ evq' = IF Watched THEN Append(evq, Event("Remove")) ELSE evq
    /\ watching' = FALSE
    /\ nChanges' = nChanges + 1
    /\ UNCHANGED << clientVars, getterVars, fsnVars, watcher, wg, wpc, loadVars, heap, State,
                    muVars, condWait, ipc, closerVars, readerVars, released, rcvVars, counterVars >>

\* A file is created at the path while none is there: the watch is on the
\* file, not on its directory, so no event is raised.
FsCreate ==
    /\ nChanges < MaxChanges
    /\ file = NoFile
    /\ \E d \in Docs : file' = d
    /\ nChanges' = nChanges + 1
    /\ UNCHANGED << clientVars, getterVars, watching, evq, fsnVars, watcher, wg, wpc, loadVars, heap, State,
                    muVars, condWait, ipc, closerVars, readerVars, released, rcvVars, counterVars >>

\* Another path (a path fsnotify could report when more than the file is
\* watched).
OtherPath == "other.json"

\* Events the loop must be ready for and the changes above do not raise on a
\* watched file: events named after another path, Create and Rename on the
\* path, and an Op that is no single operation (a combined bit mask).
OtherEvents ==
    { [Name |-> OtherPath, Op |-> "Write"], [Name |-> OtherPath, Op |-> "Remove"],
      Event("Create"), Event("Rename"), Event("Write|Chmod") }

\* fsnotify sends one of these events on watcher.Events.
FsnEvent ==
    /\ nChanges < MaxChanges
    /\ Watched
    /\ \E e \in OtherEvents : evq' = Append(evq, e)
    /\ nChanges' = nChanges + 1
    /\ UNCHANGED << clientVars, getterVars, file, watching, fsnVars, watcher, wg, wpc, loadVars, heap, State,
                    muVars, condWait, ipc, closerVars, readerVars, released, rcvVars, counterVars >>

\* fsnotify's reader goroutine sees the watcher closed and exits, closing the
\* Events and Errors channels; events it had not yet sent are lost.
FsnClose ==
    /\ wclosed
    /\ ~chClosed
    /\ chClosed' = TRUE
    /\ evq' = <<>>
    /\ watching' = FALSE
    /\ UNCHANGED << clientVars, getterVars, file, nChanges, wclosed, watcher, wg, wpc, loadVars, heap, State,
                    muVars, condWait, ipc, closerVars, readerVars, released, rcvVars, counterVars >>

\* fsnotify.Watcher.Add(path): inotify_add_watch fails when the path is absent,
\* and Add fails on a closed watcher.
AddOk == file # NoFile /\ ~wclosed

\* ------------------------------------------------------------ constructor

\* The constructor has returned: nil ("returned_ok"), or the error of
\* NewCmWatcher, of Start's os.Stat or of Start's watcher.Add.
Returned == {"returned_ok", "err_watcher", "err_nopath", "err_add"}

\* NewStateManager: configmap.NewCmWatcher fails (fsnotify.NewWatcher error)
\* and the constructor returns the error with sm.watcher never set, or it
\* succeeds and init runs.
NewStateManager ==
    /\ ipc = "new"
    /\ \/ watcher' = "set" /\ ipc' = "st_stat"
       \/ watcher' = "nil" /\ ipc' = "err_watcher"
    /\ UNCHANGED << clientVars, getterVars, fsVars, fsnVars, wg, wpc, loadVars, heap, State,
                    muVars, condWait, closerVars, readerVars, released, rcvVars, counterVars >>

\* A Start that spawns the loop goroutine before it checks the path.
StartStatSpawnFirst ==
    /\ ipc = "st_stat"
    /\ wg' = wg + 1
    /\ wpc' = "lc_read"
    /\ ipc' = IF file = NoFile THEN "err_nopath" ELSE "st_add"
    /\ UNCHANGED << clientVars, getterVars, fsVars, fsnVars, watcher, loadVars, heap, State,
                    muVars, condWait, closerVars, readerVars, released, rcvVars, counterVars >>

\* CmWatcher.Start, os.Stat(w.Path): a missing path is an error, which init
\* and the constructor return.
StartStat ==
    /\ ipc = "st_stat"
    /\ ipc' = IF file = NoFile THEN "err_nopath" ELSE "st_add"
    /\ UNCHANGED << clientVars, getterVars, fsVars, fsnVars, watcher, wg, wpc, loadVars, heap, State,
                    muVars, condWait, closerVars, readerVars, released, rcvVars, counterVars >>

\* CmWatcher.Start, w.watcher.Add(w.Path): an error is returned.
StartAdd ==
    /\ ipc = "st_add"
    /\ IF AddOk
       THEN watching' = TRUE /\ ipc' = "st_go"
       ELSE watching' = watching /\ ipc' = "err_add"
    /\ UNCHANGED << clientVars, getterVars, file, evq, nChanges, fsnVars, watcher, wg, wpc, loadVars, heap,
                    State, muVars, condWait, closerVars, readerVars, released, rcvVars, counterVars >>

\* A Start that counts the goroutine in before the path check has passed: the
\* count is never taken back when Start fails.
StartGoCountAlways ==
    \/ /\ ipc = "st_go"
       /\ wg' = wg + 1
       /\ wpc' = "lc_read"
          /\ ipc' = "i_lock"
       /\ UNCHANGED << clientVars, getterVars, fsVars, fsnVars, watcher, loadVars, heap, State,
                       muVars, condWait, closerVars, readerVars, released, rcvVars, counterVars >>
    \/ /\ ipc \in {"err_nopath", "err_add"}
       /\ wg = 0
       /\ wg' = 1
       /\ UNCHANGED << clientVars, getterVars, fsVars, fsnVars, watcher, wpc, loadVars, heap, State,
                       muVars, condWait, ipc, closerVars, readerVars, released, rcvVars, counterVars >>

\* A loop goroutine that goes straight to its select.
StartGoNoEager ==
    /\ ipc = "st_go"
    /\ wg' = wg + 1
    /\ wpc' = "select"
    /\ ipc' = "i_lock"
    /\ UNCHANGED << clientVars, getterVars, fsVars, fsnVars, watcher, loadVars, heap, State,
                    muVars, condWait, closerVars, readerVars, released, rcvVars, counterVars >>

\* CmWatcher.Start, w.wg.Add(1); go func: the loop goroutine starts with the
\* eager call of the callback on w.Path; Start returns nil and init goes on.
StartGo ==
    /\ ipc = "st_go"
    /\ wg' = wg + 1
    /\ wpc' = "lc_read"
    /\ ipc' = "i_lock"
    /\ UNCHANGED << clientVars, getterVars, fsVars, fsnVars, watcher, loadVars, heap, State,
                    muVars, condWait, closerVars, readerVars, released, rcvVars, counterVars >>

\* init, sm.cond.L.Lock(): the exclusive lock of sm.mu.
InitLock ==
    /\ ipc = "i_lock"
    /\ muW = "none" /\ muR = {}
    /\ muW' = "init"
    /\ ipc' = "i_check"
    /\ UNCHANGED << clientVars, getterVars, fsVars, fsnVars, watcher, wg, wpc, loadVars, heap, State,
                    muR, condWait, closerVars, readerVars, released, rcvVars, counterVars >>

\* An init that does not wait for sm.State.
InitCheckNoWait ==
    /\ ipc = "i_check"
    /\ ipc' = "i_unlock"
    /\ UNCHANGED << clientVars, getterVars, fsVars, fsnVars, watcher, wg, wpc, loadVars, heap, State,
                    muVars, condWait, closerVars, readerVars, released, rcvVars, counterVars >>

\* init, for sm.State == nil: wait, else leave the loop.
InitCheck ==
    /\ ipc = "i_check"
    /\ ipc' = IF State = 0 THEN "i_wait_add" ELSE "i_unlock"
    /\ UNCHANGED << clientVars, getterVars, fsVars, fsnVars, watcher, wg, wpc, loadVars, heap, State,
                    muVars, condWait, closerVars, readerVars, released, rcvVars, counterVars >>

\* sync.Cond.Wait, first half: the caller joins the notify list while it
\* still holds the lock ...
CondWaitAdd ==
    /\ ipc = "i_wait_add"
    /\ condWait' = "listed"
    /\ ipc' = "i_wait_unlock"
    /\ UNCHANGED << clientVars, getterVars, fsVars, fsnVars, watcher, wg, wpc, loadVars, heap, State,
                    muVars, closerVars, readerVars, released, rcvVars, counterVars >>

\* ... then releases the lock ...
CondWaitUnlock ==
    /\ ipc = "i_wait_unlock"
    /\ muW' = "none"
    /\ ipc' = "i_sleep"
    /\ UNCHANGED << clientVars, getterVars, fsVars, fsnVars, watcher, wg, wpc, loadVars, heap, State,
                    muR, condWait, closerVars, readerVars, released, rcvVars, counterVars >>

\* ... and sleeps until a Broadcast has taken it off the list.
CondWaitSleep ==
    /\ ipc = "i_sleep"
    /\ condWait = "notified"
    /\ condWait' = "none"
    /\ ipc' = "i_relock"
    /\ UNCHANGED << clientVars, getterVars, fsVars, fsnVars, watcher, wg, wpc, loadVars, heap, State,
                    muVars, closerVars, readerVars, released, rcvVars, counterVars >>

\* A wait that does not test the condition again once woken (if, not for).
CondWaitRelockNoRecheck ==
    /\ ipc = "i_relock"
    /\ muW = "none" /\ muR = {}
    /\ muW' = "init"
    /\ ipc' = "i_unlock"
    /\ UNCHANGED << clientVars, getterVars, fsVars, fsnVars, watcher, wg, wpc, loadVars, heap, State,
                    muR, condWait, closerVars, readerVars, released, rcvVars, counterVars >>

\* sync.Cond.Wait, last half: the lock is taken again, and init's for loop
\* tests sm.State == nil again.
CondWaitRelock ==
    /\ ipc = "i_relock"
    /\ muW = "none" /\ muR = {}
    /\ muW' = "init"
    /\ ipc' = "i_check"
    /\ UNCHANGED << clientVars, getterVars, fsVars, fsnVars, watcher, wg, wpc, loadVars, heap, State,
                    muR, condWait, closerVars, readerVars, released, rcvVars, counterVars >>

\* init, sm.cond.L.Unlock(); return nil.
InitUnlock ==
    /\ ipc = "i_unlock"
    /\ muW' = "none"
    /\ ipc' = "returned_ok"
    /\ UNCHANGED << clientVars, getterVars, fsVars, fsnVars, watcher, wg, wpc, loadVars, heap, State,
                    muR, condWait, closerVars, readerVars, released, rcvVars, counterVars >>

\* ------------------------------------------- loadConfig (the callback)

\* loadConfig up to the call of loadState, as a value: ReadFile, then
\* State := &State{cache: make(...)} and json.Unmarshal(data, &State.Configs),
\* each returning its error. state is the new State (dropped on an error).
loadConfig(f) ==
    LET r == ReadFile(f)
        u == Unmarshal(r.data)
    IN  IF r.err THEN [err |-> TRUE, state |-> NewState(<<>>)]
        ELSE [err |-> u.err, state |-> NewState(u.Configs)]

\* A loadConfig that goes on to loadState although json.Unmarshal failed.
LcReadNoReturn ==
    /\ wpc = "lc_read"
    /\ LET l == loadConfig(file) IN
        /\ lcErr' = l.err
        /\ heap' = Append(heap, [l.state EXCEPT !.cache = buildCache(l.state.Configs, @)])
        /\ lcNew' = Len(heap) + 1
        /\ wpc' = "ls_lock"
    /\ UNCHANGED << clientVars, getterVars, fsVars, fsnVars, watcher, wg, event, State,
                    muVars, condWait, ipc, closerVars, readerVars, released, rcvVars, counterVars >>

\* loadConfig reads and parses the file; on an error it returns (the deferred
\* Broadcast runs). Otherwise it calls loadState, which starts with
\* State.buildCache() on the new, still private, State; a nil pointer
\* dereference there is a panic that nothing recovers: the process dies.
LcRead ==
    /\ wpc = "lc_read"
    /\ LET l == loadConfig(file) IN
        IF l.err
        THEN /\ lcErr' = TRUE
             /\ wpc' = "lc_broadcast"
             /\ UNCHANGED << clientVars, getterVars, heap, lcNew >>
        ELSE IF NilDeref(l.state.Configs)
        THEN /\ wpc' = "panic"
             /\ UNCHANGED << clientVars, getterVars, heap, lcNew, lcErr >>
        ELSE /\ lcErr' = FALSE
             /\ heap' = Append(heap, [l.state EXCEPT !.cache = buildCache(l.state.Configs, @)])
             /\ lcNew' = Len(heap) + 1
             /\ wpc' = "ls_lock"
    /\ UNCHANGED << clientVars, getterVars, fsVars, fsnVars, watcher, wg, event, State,
                    muVars, condWait, ipc, closerVars, readerVars, released, rcvVars, counterVars >>

\* loadState, sm.mu.Lock(), first half: RWMutex.Lock takes the writer mutex
\* and announces the writer; from here on RLock blocks.
LsLock ==
    /\ wpc = "ls_lock"
    /\ muW = "none"
    /\ muW' = "loader"
    /\ wpc' = "ls_drain"
    /\ UNCHANGED << clientVars, getterVars, fsVars, fsnVars, watcher, wg, loadVars, heap, State,
                    muR, condWait, ipc, closerVars, readerVars, released, rcvVars, counterVars >>

\* loadState, sm.mu.Lock(), second half: Lock returns when the readers that
\* held the shared lock at the announcement have released it.
LsLockWait ==
    /\ wpc = "ls_drain"
    /\ muR = {}
    /\ wpc' = "ls_store"
    /\ UNCHANGED << clientVars, getterVars, fsVars, fsnVars, watcher, wg, loadVars, heap, State,
                    muVars, condWait, ipc, closerVars, readerVars, released, rcvVars, counterVars >>

\* A loadState that sets sm.State only while it is nil.
LsStoreOnce ==
    /\ wpc = "ls_store"
    /\ State' = IF State = 0 THEN lcNew ELSE State
    /\ wpc' = "ls_unlock"
    /\ UNCHANGED << clientVars, getterVars, fsVars, fsnVars, watcher, wg, loadVars, heap,
                    muVars, condWait, ipc, closerVars, readerVars, released, rcvVars, counterVars >>

\* A loadState that publishes the State built by the read before this one.
LsStoreEarlier ==
    /\ wpc = "ls_store"
    /\ State' = IF lcNew > 1 THEN lcNew - 1 ELSE lcNew
    /\ wpc' = "ls_unlock"
    /\ UNCHANGED << clientVars, getterVars, fsVars, fsnVars, watcher, wg, loadVars, heap,
                    muVars, condWait, ipc, closerVars, readerVars, released, rcvVars, counterVars >>

\* loadState, sm.State = State: the State published before is referred to
\* only by the callers that still hold a Config of it.
LsStore ==
    /\ wpc = "ls_store"
    /\ State' = lcNew
    /\ heap' = Collect(heap, {lcNew, gcfg.snap, gsrc} \cup {rres[r].snap : r \in Readers})
    /\ wpc' = "ls_unlock"
    /\ UNCHANGED << clientVars, getterVars, fsVars, fsnVars, watcher, wg, loadVars,
                    muVars, condWait, ipc, closerVars, readerVars, released, rcvVars, counterVars >>

\* loadState, sm.mu.Unlock(): the reload of State lcNew has released the lock.
LsUnlock ==
    /\ wpc = "ls_unlock"
    /\ muW' = "none"
    /\ released' = lcNew
    /\ wpc' = "ls_notify"
    /\ UNCHANGED << clientVars, getterVars, fsVars, fsnVars, watcher, wg, loadVars, heap, State,
                    muR, condWait, ipc, closerVars, readerVars, rcvVars, counterVars >>

\* The channel a caller passes to NewStateManager as updateChan.
Supplied == "ch"

\* sm.updateChan once NewStateManager(dirPath, scope, arg, fr) has run init:
\* the composite literal of NewStateManager sets filePath and emap only, so
\* the field is nil when init tests it, and init makes the dummy channel
\* whatever arg is.
updateChan(arg) == LET field == "nil" IN IF field = "nil" THEN "dummy" ELSE field

\* The send of notify is taken: a receiver waits in a receive on
\* sm.updateChan itself ("recv"), or on the channel that was passed to
\* NewStateManager ("recv_ch") and that channel is sm.updateChan.
Delivered ==
    \/ rcv = "recv"
    \/ rcv = "recv_ch" /\ updateChan(Supplied) = Supplied

\* notify: a non-blocking send on sm.updateChan, taken by a receiver that is
\* waiting in a receive on that channel and dropped otherwise.
notify ==
    /\ rcv' = IF Delivered THEN "busy" ELSE rcv
    /\ dropped' = ~Delivered

\* A loadState whose send on updateChan waits for a receiver.
LsNotifyBlocking ==
    /\ wpc = "ls_notify"
    /\ rcv = "recv"
    /\ notify
    /\ wpc' = "lc_broadcast"
    /\ UNCHANGED << clientVars, getterVars, fsVars, fsnVars, watcher, wg, loadVars, heap, State,
                    muVars, condWait, ipc, closerVars, readerVars, released, counterVars >>

\* loadState, sm.notify() and the loop of emap.Set (the expvar side index,
\* which nothing of the model reads); return nil.
LsNotify ==
    /\ wpc = "ls_notify"
    /\ notify
    /\ wpc' = "lc_broadcast"
    /\ UNCHANGED << clientVars, getterVars, fsVars, fsnVars, watcher, wg, loadVars, heap, State,
                    muVars, condWait, ipc, closerVars, readerVars, released, counterVars >>

\* A loadConfig without the deferred Broadcast.
LcBroadcastMissing ==
    /\ wpc = "lc_broadcast"
    /\ lcErr' = FALSE
    /\ lcNew' = 0
    /\ event' = NoEvent
    /\ wpc' = "select"
    /\ UNCHANGED << clientVars, getterVars, fsVars, fsnVars, watcher, wg, heap, State,
                    muVars, condWait, ipc, closerVars, readerVars, released, rcvVars, counterVars >>

\* A loop that returns when the callback has returned an error.
LcBroadcastStopOnError ==
    /\ wpc = "lc_broadcast"
    /\ condWait' = IF condWait = "listed" THEN "notified" ELSE condWait
    /\ lcErr' = FALSE
    /\ lcNew' = 0
    /\ event' = NoEvent
    /\ wpc' = IF lcErr THEN "exited" ELSE "select"
    /\ UNCHANGED << clientVars, getterVars, fsVars, fsnVars, watcher, wg, heap, State,
                    muVars, ipc, closerVars, readerVars, released, rcvVars, counterVars >>

\* loadConfig, defer sm.cond.Broadcast(): runs on every return, with or
\* without an error; the waiter on the notify list is woken. The callback
\* returns to startWatcher, which logs an error and goes (back) to its loop.
LcBroadcast ==
    /\ wpc = "lc_broadcast"
    /\ condWait' = IF condWait = "listed" THEN "notified" ELSE condWait
    /\ lcErr' = FALSE
    /\ lcNew' = 0
    /\ event' = NoEvent
    /\ wpc' = "select"
    /\ UNCHANGED << clientVars, getterVars, fsVars, fsnVars, watcher, wg, heap, State,
                    muVars, ipc, closerVars, readerVars, released, rcvVars, counterVars >>

\* ------------------------------------------------- startWatcher (the loop)

\* A loop that calls the callback for Create and Write and ignores the rest.
DispatchNoReset(ev) ==
    IF ev.Name # Path THEN "select"
    ELSE CASE ev.Op \in {"Create", "Write"} -> "lc_read"
           [] OTHER -> "select"

\* A loop that does not call the callback for Create.
DispatchNoCreate(ev) ==
    IF ev.Name # Path THEN "select"
    ELSE CASE ev.Op \in {"Remove", "Rename", "Chmod"} -> "ev_remove"
           [] ev.Op = "Write" -> "lc_read"
           [] OTHER -> "select"

\* A loop that does not compare the event's name with its path.
DispatchAnyPath(ev) ==
    CASE ev.Op \in {"Remove", "Rename", "Chmod"} -> "ev_remove"
      [] ev.Op \in {"Create", "Write"} -> "lc_read"
      [] OTHER -> "select"

\* Where the loop goes for an event: other paths are skipped; Remove, Rename
\* and Chmod reset the watch first; Create and Write call the callback; any
\* other Op is ignored.
Dispatch(ev) ==
    IF ev.Name # Path THEN "select"
    ELSE CASE ev.Op \in {"Remove", "Rename", "Chmod"} -> "ev_remove"
           [] ev.Op \in {"Create", "Write"} -> "lc_read"
           [] OTHER -> "select"

\* startWatcher, case event, ok := <-w.watcher.Events with ok.
LoopEvent ==
    /\ wpc = "select"
    /\ ~chClosed
    /\ evq # <<>>
    /\ evq' = Tail(evq)
    /\ event' = Head(evq)
    /\ wpc' = Dispatch(Head(evq))
    /\ UNCHANGED << clientVars, getterVars, file, watching, nChanges, fsnVars, watcher, wg, lcErr, lcNew, heap, State,
                    muVars, condWait, ipc, closerVars, readerVars, released, rcvVars, counterVars >>

\* A goroutine of Start without the deferred w.wg.Done().
LoopClosedNoDone ==
    /\ wpc = "select"
    /\ chClosed
    /\ wpc' = "exited"
    /\ UNCHANGED << clientVars, getterVars, fsVars, fsnVars, watcher, wg, loadVars, heap, State,
                    muVars, condWait, ipc, closerVars, readerVars, released, rcvVars, counterVars >>

\* startWatcher, a receive from the closed Events or Errors channel: return,
\* and the deferred w.wg.Done() of Start's goroutine runs.
LoopClosed ==
    /\ wpc = "select"
    /\ chClosed
    /\ wpc' = "exited"
    /\ wg' = wg - 1
    /\ UNCHANGED << clientVars, getterVars, fsVars, fsnVars, watcher, loadVars, heap, State,
                    muVars, condWait, ipc, closerVars, readerVars, released, rcvVars, counterVars >>

\* startWatcher, w.watcher.Remove(event.Name): the watch on the path is
\* dropped (an error is ignored).
EvRemove ==
    /\ wpc = "ev_remove"
    /\ watching' = FALSE
    /\ wpc' = "ev_add"
    /\ UNCHANGED << clientVars, getterVars, file, evq, nChanges, fsnVars, watcher, wg, loadVars, heap, State,
                    muVars, condWait, ipc, closerVars, readerVars, released, rcvVars, counterVars >>

\* A loop that calls the callback whether or not the watch was set again.
EvAddThenCallback ==
    /\ wpc = "ev_add"
    /\ watching' = (IF AddOk THEN TRUE ELSE watching)
    /\ wpc' = "lc_read"
    /\ UNCHANGED << clientVars, getterVars, file, evq, nChanges, fsnVars, watcher, wg, loadVars, heap, State,
                    muVars, condWait, ipc, closerVars, readerVars, released, rcvVars, counterVars >>

\* startWatcher, w.watcher.Add(event.Name): on an error, log and continue;
\* otherwise call the callback.
EvAdd ==
    /\ wpc = "ev_add"
    /\ IF AddOk
       THEN watching' = TRUE /\ wpc' = "lc_read" /\ event' = event
       ELSE watching' = watching /\ wpc' = "select" /\ event' = NoEvent
    /\ UNCHANGED << clientVars, getterVars, file, evq, nChanges, fsnVars, watcher, wg, lcErr, lcNew, heap, State,
                    muVars, condWait, ipc, closerVars, readerVars, released, rcvVars, counterVars >>

\* ------------------------------------------------------------ Close / Stop

\* Close: the manager is in the caller's hands once the constructor has
\* returned. if sm.watcher != nil, Stop is called; else Close returns.
CloseCall ==
    /\ cpc = "idle"
    /\ ipc \in Returned
    /\ nCloses < MaxCloses
    /\ IF watcher = "nil"
       THEN cpc' = "idle" /\ nCloses' = nCloses + 1
       ELSE cpc' = "c_close" /\ nCloses' = nCloses
    /\ UNCHANGED << clientVars, getterVars, fsVars, fsnVars, watcher, wg, wpc, loadVars, heap, State,
                    muVars, condWait, ipc, readerVars, released, rcvVars, counterVars >>

\* Stop: if w == nil, return; w.watcher.Close(), and closing a closed fsnotify
\* watcher is a no-op.
StopClose ==
    /\ cpc = "c_close"
    /\ IF watcher = "nil"
       THEN wclosed' = wclosed /\ cpc' = "idle" /\ nCloses' = nCloses + 1
       ELSE wclosed' = TRUE /\ cpc' = "c_wait" /\ nCloses' = nCloses
    /\ UNCHANGED << clientVars, getterVars, fsVars, chClosed, watcher, wg, wpc, loadVars, heap, State,
                    muVars, condWait, ipc, readerVars, released, rcvVars, counterVars >>

\* A Stop that does not wait for the loop goroutine.
StopWaitNoWait ==
    /\ cpc = "c_wait"
    /\ cpc' = "idle"
    /\ nCloses' = nCloses + 1
    /\ UNCHANGED << clientVars, getterVars, fsVars, fsnVars, watcher, wg, wpc, loadVars, heap, State,
                    muVars, condWait, ipc, readerVars, released, rcvVars, counterVars >>

\* Stop, w.wg.Wait(): returns when the counter is zero.
StopWait ==
    /\ cpc = "c_wait"
    /\ wg = 0
    /\ cpc' = "idle"
    /\ nCloses' = nCloses + 1
    /\ UNCHANGED << clientVars, getterVars, fsVars, fsnVars, watcher, wg, wpc, loadVars, heap, State,
                    muVars, condWait, ipc, readerVars, released, rcvVars, counterVars >>

\* ------------------------------------------------------------------ GetKey

\* A caller that holds the manager the constructor returned calls GetKey(k);
\* the Config of its previous call is dropped.
GetKeyCall(r) ==
    /\ rpc[r] \in {"idle", "done"}
    /\ ipc = "returned_ok"
    /\ \E k \in Keys : rkey' = [rkey EXCEPT ![r] = k]
    /\ rpc' = [rpc EXCEPT ![r] = "r_call"]
    /\ rres' = [rres EXCEPT ![r] = NoResult]
    /\ rStart' = [rStart EXCEPT ![r] = released]
    /\ heap' = Collect(heap, {State, lcNew, gcfg.snap, gsrc}
                               \cup {rres[q].snap : q \in Readers \ {r}})
    /\ UNCHANGED << clientVars, getterVars, fsVars, fsnVars, watcher, wg, wpc, loadVars, State,
                    muVars, condWait, ipc, closerVars, released, rcvVars, counterVars >>

\* GetKey, sm.mu.RLock().
GetKeyRLock(r) ==
    /\ rpc[r] = "r_call"
    /\ muW = "none"
    /\ muR' = muR \cup {r}
    /\ rpc' = [rpc EXCEPT ![r] = "r_locked"]
    /\ UNCHANGED << clientVars, getterVars, fsVars, fsnVars, watcher, wg, wpc, loadVars, heap, State,
                    muW, condWait, ipc, closerVars, rkey, rres, rStart, released, rcvVars, counterVars >>

\* GetKey, return sm.State.get(key), and the deferred sm.mu.RUnlock(). A nil
\* sm.State is a nil dereference.
GetKeyRead(r) ==
    /\ rpc[r] = "r_locked"
    /\ rres' = [rres EXCEPT ![r] =
                  IF State = 0 THEN [err |-> "panic", snap |-> 0, pos |-> 0]
                  ELSE [err |-> get(heap[State], rkey[r]).err, snap |-> State,
                        pos |-> get(heap[State], rkey[r]).pos]]
    /\ muR' = muR \ {r}
    /\ rpc' = [rpc EXCEPT ![r] = "done"]
    /\ UNCHANGED << clientVars, getterVars, fsVars, fsnVars, watcher, wg, wpc, loadVars, heap, State,
                    muW, condWait, ipc, closerVars, rkey, rStart, released, rcvVars, counterVars >>

\* ------------------------------------------------------ update channel

\* The owner of the update channel starts a receive on it. notify never
\* blocks, so the receiver acts on nothing but the channel; it takes part in
\* the specifications about the channel only.
RcvWait ==
    /\ rcv = "busy"
    /\ rcv' = "recv"
    /\ UNCHANGED << clientVars, getterVars, fsVars, fsnVars, watcher, wg, wpc, loadVars, heap, State,
                    muVars, condWait, ipc, closerVars, readerVars, released, dropped,
                    counterVars >>

\* The caller that passed a channel to NewStateManager starts a receive on
\* that channel.
RcvWaitSupplied ==
    /\ rcv = "busy"
    /\ rcv' = "recv_ch"
    /\ UNCHANGED << clientVars, getterVars, fsVars, fsnVars, watcher, wg, wpc, loadVars, heap, State,
                    muVars, condWait, ipc, closerVars, readerVars, released, dropped,
                    counterVars >>

\* ------------------------------------------------------------------ client

\* NewNullClient: a client on a NullStateManager; no state manager is built.
NewNullClient ==
    /\ client = "none" /\ ipc = "new"
    /\ client' = "null"
    /\ ipc' = "unused"
    /\ UNCHANGED << fsVars, fsnVars, watcher, wg, wpc, loadVars, heap, State, muVars,
                    condWait, closerVars, readerVars, released, rcvVars, counterVars,
                    dcache, dset, nSets, getterVars >>

\* NewTestClient: a client on a DummyStateManager with an empty cache.
NewTestClient ==
    /\ client = "none" /\ ipc = "new"
    /\ client' = "dummy"
    /\ ipc' = "unused"
    /\ dcache' = [k \in Keys |-> "absent"]
    /\ UNCHANGED << fsVars, fsnVars, watcher, wg, wpc, loadVars, heap, State, muVars,
                    condWait, closerVars, readerVars, released, rcvVars, counterVars,
                    dset, nSets, getterVars >>

\* NewClient, after model.NewStateManager has returned: with an error the
\* Client returned is nil, otherwise it is a client on the state manager.
NewClient ==
    /\ client = "none" /\ ipc \in Returned
    /\ client' = IF ipc = "returned_ok" THEN "real" ELSE "nil"
    /\ UNCHANGED << fsVars, fsnVars, watcher, wg, wpc, loadVars, heap, State, muVars,
                    condWait, ipc, closerVars, readerVars, released, rcvVars, counterVars,
                    dcache, dset, nSets, getterVars >>

\* A SetConfig that leaves a key alone once it has a Config.
SetConfigKeepFirst ==
    /\ client = "dummy"
    /\ nSets < MaxSets
    /\ \E k \in Keys, raw \in Raws :
        /\ dcache' = [dcache EXCEPT ![k] = IF dcache[k] = "absent" THEN raw ELSE dcache[k]]
        /\ dset' = [key |-> k, raw |-> raw]
    /\ nSets' = nSets + 1
    /\ UNCHANGED << fsVars, fsnVars, watcher, wg, wpc, loadVars, heap, State, muVars,
                    condWait, ipc, closerVars, readerVars, released, rcvVars, counterVars,
                    client, getterVars >>

\* TestClient.SetBoolean ... SetRaw, through DummyStateManager.SetConfig:
\* d.state.cache[cfg.Key] = cfg with a new Config of the marshalled value.
SetConfig ==
    /\ client = "dummy"
    /\ nSets < MaxSets
    /\ \E k \in Keys, raw \in Raws :
        /\ dcache' = [dcache EXCEPT ![k] = raw]
        /\ dset' = [key |-> k, raw |-> raw]
    /\ nSets' = nSets + 1
    /\ UNCHANGED << fsVars, fsnVars, watcher, wg, wpc, loadVars, heap, State, muVars,
                    condWait, ipc, closerVars, readerVars, released, rcvVars, counterVars,
                    client, getterVars >>

\* c.sm.GetKey(key) on the state manager of the client: the Config found (its
\* snapshot, position and raw value), or ErrNotFound; the null manager finds
\* nothing, the dummy looks in its own cache.
SmGetKey(key) ==
    CASE client = "real" ->
           IF get(heap[State], key).err = "nil"
           THEN [err |-> "nil",
                 cfg |-> [snap |-> State, pos |-> get(heap[State], key).pos,
                          raw |-> heap[State].Configs[get(heap[State], key).pos].RawValue]]
           ELSE [err |-> "ErrNotFound", cfg |-> NoCfg]
      [] client = "dummy" ->
           IF dcache[key] # "absent"
           THEN [err |-> "nil", cfg |-> [snap |-> 0, pos |-> 0, raw |-> dcache[key]]]
           ELSE [err |-> "ErrNotFound", cfg |-> NoCfg]
      [] OTHER -> [err |-> "ErrNotFound", cfg |-> NoCfg]

\* The snapshot a GetKey of the client reads (0 for the null and dummy managers).
SmSnap == IF client = "real" THEN State ELSE 0

\* c.sm.GetParsedValue(cfg): cfg.parsedValue on the real manager; the dummy
\* has the method of the NullStateManager it embeds, which returns nil.
GetParsedValue(cfg) ==
    IF client = "real" THEN heap[cfg.snap].Configs[cfg.pos].parsedValue ELSE NoMemo

\* The shared, and the exclusive, lock of the real manager can be taken.
CanRLock == client = "real" => muW = "none"

\* A SetParsedValue that takes the shared lock (RLock) for its write.
CanLockShared == client = "real" => muW = "none"

CanLock == client = "real" => (muW = "none" /\ muR = {})

\* The streak after a call that read snapshot first at its start and snapshot
\* last at its end, found the memo pv, called unmarshalFn unm times on raw and
\* returned res.
Streak(first, last, pv, raw, unm, res) ==
    IF client # "real" \/ first # last THEN NoStreak
    ELSE IF streak.n = 0 \/ streak.snap # last
         THEN [snap |-> last, raw |-> raw, fresh |-> (pv = NoMemo), n |-> 1, unm |-> unm,
               res |-> res, same |-> TRUE]
         ELSE [streak EXCEPT !.n = @ + 1, !.unm = @ + unm, !.same = @ /\ res = streak.res]

\* ----------------------------------------------------------- typed getters

\* Everything but the heap that a typed getter leaves alone.
managerVars == << fsVars, fsnVars, watcher, wg, wpc, loadVars, State, muVars, condWait,
                  ipc, closerVars, readerVars, released, rcvVars, counterVars, clientVars >>

\* A caller calls GetBoolean, GetInt64, GetFloat64, GetString, GetByte,
\* IsProjectWhitelisted or IsTokenWhitelisted on the Client it was given; the
\* Config of its previous call is dropped. A method call on the nil Client is
\* a nil dereference.
GetterCall ==
    /\ gpc \in {"idle", "done"}
    /\ client \in {"real", "null", "dummy", "nil"}
    /\ nCalls < MaxCalls
    /\ \E c \in Calls :
        /\ gcall' = c
        /\ streak' = IF c.g = gcall.g /\ c.key = gcall.key /\ c.arg = gcall.arg
                     THEN streak ELSE NoStreak
    /\ gpc' = IF client = "nil" THEN "done" ELSE "g_getkey"
    /\ gres' = IF client = "nil" THEN "panic" ELSE "-"
    /\ gcfg' = NoCfg /\ gpv' = NoMemo /\ graw' = "absent" /\ gsrc' = 0 /\ gval' = NoMemo
    /\ gunm' = 0 /\ gwrote' = FALSE
    /\ gStart' = released
    /\ nCalls' = nCalls + 1
    /\ heap' = Collect(heap, {State, lcNew} \cup {rres[r].snap : r \in Readers})
    /\ UNCHANGED << managerVars, gdraw >>

\* getBoolean ... isProjectWhitelisted: config, err := c.sm.GetKey(key); on an
\* error the getter returns the default.
GetterGetKey ==
    /\ gpc = "g_getkey"
    /\ CanRLock
    /\ LET r == SmGetKey(gcall.key) IN
        IF r.err # "nil"
        THEN /\ gres' = gcall.def
             /\ gsrc' = SmSnap
             /\ gpc' = "done"
             /\ streak' = Streak(SmSnap, SmSnap, NoMemo, "absent", 0, gcall.def)
             /\ UNCHANGED << gcfg, graw >>
        ELSE /\ gcfg' = r.cfg
             /\ graw' = r.cfg.raw
             /\ gsrc' = r.cfg.snap
             /\ gpc' = "g_pv"
             /\ UNCHANGED << gres, streak >>
    /\ UNCHANGED << managerVars, heap, gcall, gpv, gval, gunm, gwrote, gStart, nCalls, gdraw >>

\* pv := c.sm.GetParsedValue(config): a memo of the getter's type is the
\* answer; a nil memo or one of another type is passed over.
GetterParsedValue ==
    /\ gpc = "g_pv"
    /\ CanRLock
    /\ LET pv == GetParsedValue(gcfg) IN
        /\ gpv' = pv
        /\ IF pv # NoMemo /\ pv.ty \in MemoTypes(gcall.g)
           THEN /\ gres' = View(gcall, pv)
                /\ gpc' = "done"
                /\ streak' = Streak(gcfg.snap, gcfg.snap, pv, gcfg.raw, 0, View(gcall, pv))
           ELSE /\ gpc' = "g_unmarshal"
                /\ UNCHANGED << gres, streak >>
    /\ UNCHANGED << managerVars, heap, gcall, gcfg, graw, gsrc, gval, gunm, gwrote,
                    gStart, nCalls, gdraw >>

\* The raw value the getter deserializes: the whitelist getters take
\* config.RawValue; the others call c.Unmarshal(key, &val), which looks the
\* key up again.
GetterRaw ==
    IF gcall.g \in {"IsProjectWhitelisted", "IsTokenWhitelisted"}
    THEN [err |-> "nil", cfg |-> gcfg]
    ELSE SmGetKey(gcall.key)

\* The deserialization (unmarshalFn, counted by the tests' countUnmarshal); on
\* an error of the lookup or of unmarshalFn the getter returns the default.
GetterUnmarshal ==
    /\ gpc = "g_unmarshal"
    /\ CanRLock
    /\ LET r == GetterRaw
           last == IF r.err = "nil" THEN r.cfg.snap ELSE SmSnap
           p == unmarshalFn(r.cfg.raw, TypeOf(gcall.g))
       IN
        /\ gsrc' = last
        /\ IF r.err # "nil"
           THEN /\ graw' = "absent"
                /\ gres' = gcall.def
                /\ gpc' = "done"
                /\ streak' = Streak(gcfg.snap, last, gpv, "absent", 0, gcall.def)
                /\ UNCHANGED << gval, gunm >>
           ELSE /\ graw' = r.cfg.raw
                /\ gunm' = gunm + 1
                /\ IF p.ok
                   THEN /\ gval' = p.val
                        /\ gpc' = "g_set"
                        /\ UNCHANGED << gres, streak >>
                   ELSE /\ gres' = gcall.def
                        /\ gpc' = "done"
                        /\ streak' = Streak(gcfg.snap, last, gpv, r.cfg.raw, 1, gcall.def)
                        /\ UNCHANGED gval
    /\ UNCHANGED << managerVars, heap, gcall, gcfg, gpv, gwrote, gStart, nCalls, gdraw >>

\* A getter that returns the value without memoizing it.
GetterSetNoMemo ==
    /\ gpc = "g_set"
    /\ CanLock
    /\ gres' = View(gcall, gval)
    /\ gpc' = "done"
    /\ streak' = Streak(gcfg.snap, gsrc, gpv, graw, gunm, View(gcall, gval))
    /\ UNCHANGED << managerVars, heap, gcall, gcfg, gpv, graw, gsrc, gval, gunm, gwrote,
                    gStart, nCalls, gdraw >>

\* A SetParsedValue that writes the memo of the Config the live snapshot holds
\* under the key.
GetterSetLive ==
    /\ gpc = "g_set"
    /\ CanLock
    /\ IF client = "real"
       THEN /\ heap' = IF get(heap[State], gcall.key).err = "nil"
                       THEN [heap EXCEPT ![State].Configs[get(heap[State], gcall.key).pos].parsedValue = gval]
                       ELSE heap
            /\ gwrote' = TRUE
       ELSE UNCHANGED << heap, gwrote >>
    /\ gres' = View(gcall, gval)
    /\ gpc' = "done"
    /\ streak' = Streak(gcfg.snap, gsrc, gpv, graw, gunm, View(gcall, gval))
    /\ UNCHANGED << managerVars, gcall, gcfg, gpv, graw, gsrc, gval, gunm,
                    gStart, nCalls, gdraw >>

\* c.sm.SetParsedValue(config, val) and the return of val: the real manager
\* writes config.parsedValue under the exclusive lock; the dummy has the
\* method of the NullStateManager it embeds, which does nothing.
GetterSet ==
    /\ gpc = "g_set"
    /\ CanLock
    /\ IF client = "real"
       THEN /\ heap' = [heap EXCEPT ![gcfg.snap].Configs[gcfg.pos].parsedValue = gval]
            /\ gwrote' = TRUE
       ELSE UNCHANGED << heap, gwrote >>
    /\ gres' = View(gcall, gval)
    /\ gpc' = "done"
    /\ streak' = Streak(gcfg.snap, gsrc, gpv, graw, gunm, View(gcall, gval))
    /\ UNCHANGED << managerVars, gcall, gcfg, gpv, graw, gsrc, gval, gunm,
                    gStart, nCalls, gdraw >>

\* IsFeatureEnabled(key, enabledByDefault), through rollDie: a call of
\* GetFloat64(name, defaultValue) on the Client; its steps are the getter's.
FlagCall ==
    /\ gpc \in {"idle", "rolled"}
    /\ client = "real"
    /\ nCalls < MaxCalls
    /\ \E c \in FlagCalls :
        /\ gcall' = c
        /\ streak' = IF c.key = gcall.key THEN streak ELSE NoStreak
    /\ gpc' = "g_getkey"
    /\ gres' = "-"
    /\ gcfg' = NoCfg /\ gpv' = NoMemo /\ graw' = "absent" /\ gsrc' = 0 /\ gval' = NoMemo
    /\ gunm' = 0 /\ gwrote' = FALSE
    /\ gStart' = released
    /\ nCalls' = nCalls + 1
    /\ heap' = Collect(heap, {State, lcNew} \cup {rres[r].snap : r \in Readers})
    /\ UNCHANGED << managerVars, gdraw >>

\* A die that also enables the flag when the draw equals the probability.
RollDieLessEq ==
    /\ gpc = "done"
    /\ gcall.arg = "rollDie"
    /\ \E d \in Draws :
        /\ gdraw' = d
        /\ gres' = IF d <= Tenths(gres) THEN "true" ELSE "false"
    /\ gpc' = "rolled"
    /\ UNCHANGED << managerVars, heap, gcall, gcfg, gpv, graw, gsrc, gval, gunm, gwrote,
                    gStart, nCalls, streak >>

\* rollDie, after GetFloat64 has returned val: randomFloat := c.rng.Float64()
\* and return randomFloat < val.
RollDie ==
    /\ gpc = "done"
    /\ gcall.arg = "rollDie"
    /\ \E d \in Draws :
        /\ gdraw' = d
        /\ gres' = IF d < Tenths(gres) THEN "true" ELSE "false"
    /\ gpc' = "rolled"
    /\ UNCHANGED << managerVars, heap, gcall, gcfg, gpv, graw, gsrc, gval, gunm, gwrote,
                    gStart, nCalls, streak >>

\* ------------------------------------------------ CallCounter (testutil)

\* Everything but the loop's position that the CallCounter leaves alone.
systemVars == << fsVars, fsnVars, watcher, wg, loadVars, heap, State, muVars, condWait,
                 ipc, closerVars, readerVars, released, rcvVars, clientVars, getterVars >>

Incrementer(p) == << "incr", p >>

Waiter(w) == << "wait", w >>

\* A goroutine of a test calls c.Incr() on the counter NewCallCounter made.
IncrCall(p) ==
    /\ p \in Goroutines
    /\ incrpc[p] = "idle"
    /\ nIncrs < MaxIncrs
    /\ incrpc' = [incrpc EXCEPT ![p] = "i_lock"]
    /\ nIncrs' = nIncrs + 1
    /\ UNCHANGED << systemVars, wpc, counterN, counterL, notifyList, waitpc, expected >>

\* Incr, l.Lock().
IncrLock(p) ==
    /\ incrpc[p] = "i_lock"
    /\ counterL = NoHolder
    /\ counterL' = Incrementer(p)
    /\ incrpc' = [incrpc EXCEPT ![p] = "i_incr"]
    /\ UNCHANGED << systemVars, wpc, counterN, notifyList, nIncrs, waitpc, expected >>

\* Incr, c.n++.
IncrAdd(p) ==
    /\ incrpc[p] = "i_incr"
    /\ counterN' = counterN + 1
    /\ incrpc' = [incrpc EXCEPT ![p] = "i_unlock"]
    /\ UNCHANGED << systemVars, wpc, counterL, notifyList, nIncrs, waitpc, expected >>

\* Incr, l.Unlock().
IncrUnlock(p) ==
    /\ incrpc[p] = "i_unlock"
    /\ counterL' = NoHolder
    /\ incrpc' = [incrpc EXCEPT ![p] = "i_broadcast"]
    /\ UNCHANGED << systemVars, wpc, counterN, notifyList, nIncrs, waitpc, expected >>

\* An Incr that wakes one waiter (cond.Signal): the first on the notify list.
IncrSignal(p) ==
    /\ incrpc[p] = "i_broadcast"
    /\ notifyList' = [w \in Waiters |->
                        IF notifyList[w] = "listed"
                           /\ \A v \in Waiters : notifyList[v] = "listed" => v >= w
                        THEN "notified" ELSE notifyList[w]]
    /\ incrpc' = [incrpc EXCEPT ![p] = "idle"]
    /\ wpc' = IF p = TheLoop THEN "select" ELSE wpc
    /\ UNCHANGED << systemVars, counterN, counterL, nIncrs, waitpc, expected >>

\* Incr, c.cond.Broadcast(), made after the mutex was released: every waiter
\* on the notify list is taken off it. Incr returns; the deferred Incr of the
\* test-support watcher's callback returns to the loop.
IncrBroadcast(p) ==
    /\ incrpc[p] = "i_broadcast"
    /\ notifyList' = [w \in Waiters |->
                        IF notifyList[w] = "listed" THEN "notified" ELSE notifyList[w]]
    /\ incrpc' = [incrpc EXCEPT ![p] = "idle"]
    /\ wpc' = IF p = TheLoop THEN "select" ELSE wpc
    /\ UNCHANGED << systemVars, counterN, counterL, nIncrs, waitpc, expected >>

\* A goroutine calls c.Wait(expected); a call that has returned may be
\* followed by another.
WaitCall(w) ==
    /\ waitpc[w] \in {"idle", "returned"}
    /\ \E e \in 0..MaxExpected : expected' = [expected EXCEPT ![w] = e]
    /\ waitpc' = [waitpc EXCEPT ![w] = "w_lock"]
    /\ UNCHANGED << systemVars, wpc, counterN, counterL, notifyList, incrpc, nIncrs >>

\* Wait, l.Lock().
WaitLock(w) ==
    /\ waitpc[w] = "w_lock"
    /\ counterL = NoHolder
    /\ counterL' = Waiter(w)
    /\ waitpc' = [waitpc EXCEPT ![w] = "w_check"]
    /\ UNCHANGED << systemVars, wpc, counterN, notifyList, incrpc, nIncrs, expected >>

\* Wait, for c.n < expected: wait, else leave the loop.
WaitCheck(w) ==
    /\ waitpc[w] = "w_check"
    /\ waitpc' = [waitpc EXCEPT ![w] = IF counterN < expected[w] THEN "w_add" ELSE "w_unlock"]
    /\ UNCHANGED << systemVars, wpc, counterN, counterL, notifyList, incrpc, nIncrs, expected >>

\* c.cond.Wait(), first half: the caller joins the notify list while it still
\* holds the mutex ...
WaitAdd(w) ==
    /\ waitpc[w] = "w_add"
    /\ notifyList' = [notifyList EXCEPT ![w] = "listed"]
    /\ waitpc' = [waitpc EXCEPT ![w] = "w_release"]
    /\ UNCHANGED << systemVars, wpc, counterN, counterL, incrpc, nIncrs, expected >>

\* ... then releases the mutex ...
WaitRelease(w) ==
    /\ waitpc[w] = "w_release"
    /\ counterL' = NoHolder
    /\ waitpc' = [waitpc EXCEPT ![w] = "w_sleep"]
    /\ UNCHANGED << systemVars, wpc, counterN, notifyList, incrpc, nIncrs, expected >>

\* ... and sleeps until a Broadcast has taken it off the list.
WaitSleep(w) ==
    /\ waitpc[w] = "w_sleep"
    /\ notifyList[w] = "notified"
    /\ notifyList' = [notifyList EXCEPT ![w] = "none"]
    /\ waitpc' = [waitpc EXCEPT ![w] = "w_relock"]
    /\ UNCHANGED << systemVars, wpc, counterN, counterL, incrpc, nIncrs, expected >>

\* c.cond.Wait(), last half: the mutex is taken again, and Wait's for loop
\* tests c.n < expected again.
WaitRelock(w) ==
    /\ waitpc[w] = "w_relock"
    /\ counterL = NoHolder
    /\ counterL' = Waiter(w)
    /\ waitpc' = [waitpc EXCEPT ![w] = "w_check"]
    /\ UNCHANGED << systemVars, wpc, counterN, notifyList, incrpc, nIncrs, expected >>

\* Wait, the deferred l.Unlock(); Wait returns.
WaitUnlock(w) ==
    /\ waitpc[w] = "w_unlock"
    /\ counterL' = NoHolder
    /\ waitpc' = [waitpc EXCEPT ![w] = "returned"]
    /\ UNCHANGED << systemVars, wpc, counterN, notifyList, incrpc, nIncrs, expected >>

\* A wrapped callback that counts the successful calls only.
LcBroadcastForTestOnSuccess ==
    /\ wpc = "lc_broadcast"
    /\ condWait' = IF condWait = "listed" THEN "notified" ELSE condWait
    /\ lcErr' = FALSE
    /\ lcNew' = 0
    /\ event' = NoEvent
    /\ wpc' = IF lcErr THEN "select" ELSE "incr"
    /\ incrpc' = [incrpc EXCEPT ![TheLoop] = IF lcErr THEN "idle" ELSE "i_lock"]
    /\ UNCHANGED << clientVars, getterVars, fsVars, fsnVars, watcher, wg, heap, State,
                    muVars, ipc, closerVars, readerVars, released, rcvVars,
                    counterN, counterL, notifyList, nIncrs, waitpc, expected >>

\* The callback of NewCmWatcherForTest, func(p) { defer c.Incr(); return
\* onFileEvent(p) }: loadConfig returns as in LcBroadcast, with or without an
\* error, and the deferred c.Incr() of the wrapper runs before the wrapper
\* returns to the loop.
LcBroadcastForTest ==
    /\ wpc = "lc_broadcast"
    /\ condWait' = IF condWait = "listed" THEN "notified" ELSE condWait
    /\ lcErr' = FALSE
    /\ lcNew' = 0
    /\ event' = NoEvent
    /\ wpc' = "incr"
    /\ incrpc' = [incrpc EXCEPT ![TheLoop] = "i_lock"]
    /\ UNCHANGED << clientVars, getterVars, fsVars, fsnVars, watcher, wg, heap, State,
                    muVars, ipc, closerVars, readerVars, released, rcvVars,
                    counterN, counterL, notifyList, nIncrs, waitpc, expected >>

\* --------------------------------------------------------- specifications

Environment == FsWrite \/ FsRename \/ FsRemove \/ FsCreate \/ FsnClose

Constructor ==
    \/ NewStateManager \/ StartStat \/ StartAdd \/ StartGo
    \/ InitLock \/ InitCheck \/ CondWaitAdd \/ CondWaitUnlock \/ CondWaitSleep
    \/ CondWaitRelock \/ InitUnlock

Loader ==
    \/ LcRead \/ LsLock \/ LsLockWait \/ LsStore \/ LsUnlock \/ LsNotify
    \/ LcBroadcast

Loop == LoopEvent \/ LoopClosed \/ EvRemove \/ EvAdd

Closer == CloseCall \/ StopClose \/ StopWait

Reader == \E r \in Readers : GetKeyCall(r) \/ GetKeyRLock(r) \/ GetKeyRead(r)

Next == Environment \/ Constructor \/ Loader \/ Loop \/ Closer \/ Reader

Spec == Init /\ [][Next]_vars

\* Scheduling. The Go scheduler runs every runnable goroutine: each process
\* takes its next step when that step stays possible (weak fairness). A step
\* that takes sm.mu competes with the other holders; the runtime's mutex hands
\* the lock to a waiter that keeps waiting (starvation mode), so a lock step
\* that is possible again and again is taken (strong fairness). A reader that
\* holds the shared lock returns, and an announced writer keeps new readers
\* out, so overlapping readers cannot starve it. The environment owes nothing.
WatcherRuns == LcRead \/ LsLockWait \/ LsStore \/ LsUnlock \/ LsNotify \/ LcBroadcast
                 \/ LoopEvent \/ LoopClosed \/ EvRemove \/ EvAdd

ConstructorRuns == NewStateManager \/ StartStat \/ StartAdd \/ StartGo \/ InitCheck
                     \/ CondWaitAdd \/ CondWaitUnlock \/ CondWaitSleep \/ InitUnlock

Fairness ==
    /\ WF_vars(WatcherRuns)
    /\ SF_vars(LsLock)
    /\ WF_vars(ConstructorRuns)
    /\ SF_vars(InitLock \/ CondWaitRelock)
    /\ WF_vars(StopClose \/ StopWait)
    /\ WF_vars(FsnClose)
    /\ \A r \in Readers : WF_vars(GetKeyRead(r))

\* The whole system under fair scheduling.
LiveSpec == Init /\ [][Next]_vars /\ Fairness

\* The system while the watcher runs and the file is only ever changed in
\* place or by rename-replacement: no Close, no deletion of the file.
NextConv ==
    \/ FsWrite \/ FsRename
    \/ Constructor \/ Loader
    \/ LoopEvent \/ EvRemove \/ EvAdd
    \/ Reader

ConvSpec == Init /\ [][NextConv]_vars /\ Fairness

\* Construction against a file that parses, the file then changed at will.
InitValid ==
    /\ Init
    /\ ~loadConfig(file).err

ValidSpec == InitValid /\ [][Next]_vars

\* The constructor and the loop against every kind of event: changes of the
\* file and events fsnotify sends for no change of it.
NextLoop ==
    \/ FsWrite \/ FsRename \/ FsRemove \/ FsCreate \/ FsnEvent
    \/ Constructor \/ Loader
    \/ LoopEvent \/ EvRemove \/ EvAdd

LoopSpec == Init /\ [][NextLoop]_vars

\* The file is overwritten in place with JSON of any shape.
FsWriteShape ==
    /\ nChanges < MaxChanges
    /\ file # NoFile
    /\ \E d \in ShapeDocs :
        /\ file' = d
        /\ evq' = IF Watched THEN Append(evq, Event("Write")) ELSE evq
    /\ nChanges' = nChanges + 1
    /\ UNCHANGED << clientVars, getterVars, watching, fsnVars, watcher, wg, wpc, loadVars,
                    heap, State, muVars, condWait, ipc, closerVars, readerVars,
                    released, rcvVars, counterVars >>

\* The constructor and the loop over files of every shape; after a panic the
\* process is gone and nothing of it runs.
NextShape ==
    /\ wpc # "panic"
    /\ \/ FsWriteShape \/ FsRemove
       \/ Constructor \/ Loader
       \/ LoopEvent \/ EvRemove \/ EvAdd

InitShape ==
    /\ file \in ShapeDocs
    /\ InitState

ShapeSpec == InitShape /\ [][NextShape]_vars

\* The file of a scope that carries typed values is written in place.
FsWriteTyped ==
    /\ nChanges < MaxTypedWrites
    /\ file # NoFile
    /\ \E d \in TypedDocs :
        /\ file' = d
        /\ evq' = IF Watched THEN Append(evq, Event("Write")) ELSE evq
    /\ nChanges' = nChanges + 1
    /\ UNCHANGED << clientVars, getterVars, watching, fsnVars, watcher, wg, wpc, loadVars,
                    heap, State, muVars, condWait, ipc, closerVars, readerVars,
                    released, rcvVars, counterVars >>

ClientMake == NewClient \/ NewNullClient \/ NewTestClient

Getter == GetterCall \/ GetterGetKey \/ GetterParsedValue \/ GetterUnmarshal \/ GetterSet

\* A client of each kind and its typed getters, over a file of typed values.
NextClient ==
    \/ FsWriteTyped
    \/ Constructor \/ Loader \/ LoopEvent
    \/ ClientMake \/ SetConfig \/ Getter

\* The scope's file is missing or holds one integer at first.
InitClient ==
    /\ Init
    /\ file \in {DocB, NoFile}

ClientSpec == InitClient /\ [][NextClient]_vars

\* The real manager with every user of sm.mu at once: init, the loader,
\* callers of GetKey and the typed getters of a client, the file written in
\* place.
NextLock ==
    \/ FsWriteTyped
    \/ Constructor \/ Loader \/ LoopEvent
    \/ NewClient \/ Getter
    \/ Reader

InitLockSpec ==
    /\ Init
    /\ file = DocB

LockSpec == InitLockSpec /\ [][NextLock]_vars

\* The manager with a receiver on its update channel, the file written in
\* place; the receiver owes nothing.
NextChan ==
    \/ FsWrite
    \/ Constructor \/ Loader \/ LoopEvent
    \/ RcvWait

ChanSpec == Init /\ [][NextChan]_vars /\ Fairness

\* The manager built by NewStateManager with a channel passed as updateChan,
\* and the caller receiving on that channel; the file written in place.
NextSupplied ==
    \/ FsWrite
    \/ Constructor \/ Loader \/ LoopEvent
    \/ RcvWaitSupplied

SuppliedSpec == Init /\ [][NextSupplied]_vars

\* Incr and Wait, step by step.
Incr(p) == IncrLock(p) \/ IncrAdd(p) \/ IncrUnlock(p) \/ IncrBroadcast(p)

Wait(w) ==
    \/ WaitCall(w) \/ WaitLock(w) \/ WaitCheck(w) \/ WaitAdd(w) \/ WaitRelease(w)
    \/ WaitSleep(w) \/ WaitRelock(w) \/ WaitUnlock(w)

\* A CallCounter with goroutines that call Incr and goroutines that call Wait
\* (the tests of the CallCounter).
NextCounter ==
    \/ \E p \in Goroutines : IncrCall(p) \/ Incr(p)
    \/ \E w \in Waiters : Wait(w)

\* Every goroutine that can run does; a goroutine that waits for the mutex
\* gets it when it is free again and again. The callers owe no call.
CounterFairness ==
    /\ \A p \in Goroutines :
           /\ WF_vars(IncrAdd(p) \/ IncrUnlock(p) \/ IncrBroadcast(p))
           /\ SF_vars(IncrLock(p))
    /\ \A w \in Waiters :
           /\ WF_vars(WaitCheck(w) \/ WaitAdd(w) \/ WaitRelease(w) \/ WaitSleep(w)
                        \/ WaitUnlock(w))
           /\ SF_vars(WaitLock(w) \/ WaitRelock(w))

InitCounter ==
    /\ file = DocB
    /\ InitState

CounterSpec == InitCounter /\ [][NextCounter]_vars /\ CounterFairness

\* The state manager of the tests (newStateManagerForTest): its watcher is
\* the test-support one, whose callback counts its calls, and a test waits on
\* watcher.NotifyCounter while the file is changed.
NextTest ==
    \/ FsWrite \/ FsRename \/ FsRemove
    \/ Constructor
    \/ LcRead \/ LsLock \/ LsLockWait \/ LsStore \/ LsUnlock \/ LsNotify
    \/ LcBroadcastForTest
    \/ Incr(TheLoop)
    \/ LoopEvent \/ EvRemove \/ EvAdd
    \/ Wait(1)

TestSpec == Init /\ [][NextTest]_vars

\* A client on a scope of feature flags, or of one integer, and its
\* IsFeatureEnabled.
NextFlag ==
    \/ Constructor \/ Loader
    \/ NewClient
    \/ FlagCall \/ GetterGetKey \/ GetterParsedValue \/ GetterUnmarshal \/ GetterSet
    \/ RollDie

InitFlag ==
    /\ file \in {DocF, DocB}
    /\ InitState

FlagSpec == InitFlag /\ [][NextFlag]_vars

\* ------------------------------------------------------------------ claims

\* The State sm.State points to (Freed stands for none).
LiveSnapshot == IF State = 0 THEN Freed ELSE heap[State]

\* A lookup by the definition of the snapshot: the last Config of the list
\* that carries the key, ErrNotFound when none does.
LookupIn(configs, key) ==
    LET at == {i \in 1..Len(configs) : configs[i].Key = key}
    IN  IF at = {} THEN [err |-> "ErrNotFound", pos |-> 0]
        ELSE [err |-> "nil", pos |-> CHOOSE i \in at : \A j \in at : j <= i]

\* The key index of s is fully built: it holds every key of s.Configs, and
\* nothing else.
Complete(s) ==
    /\ ~s.freed
    /\ DOMAIN s.cache = {s.Configs[i].Key : i \in 1..Len(s.Configs)}
    /\ \A k \in DOMAIN s.cache : s.Configs[s.cache[k]].Key = k

\* The file's content parses.
Valid(f) == ~loadConfig(f).err

\* C1: the constructor (NewStateManager through init) returns a nil error only
\* when a successful loadConfig has published a snapshot: once init has left
\* its wait loop sm.State is non-nil; the Broadcast of a failed loadConfig
\* wakes init but never lets it out of the loop.
C1_ConstructorReturnsAfterSnapshot ==
    ipc \in {"i_unlock", "returned_ok"} => (State # 0 /\ Complete(heap[State]))

\* C1 witness: the constructor has returned nil with a snapshot published.
C1_Witness == ipc = "returned_ok" /\ State # 0

\* C2: a loadConfig call that fails (file unreadable, content that does not
\* parse) leaves the live snapshot as it was: no step of a failed call changes
\* the snapshot pointer or the snapshot it points to (key set, raw values,
\* memoized values), so a GetKey after it finds what it found before.
C2_FailedLoadKeepsSnapshot ==
    [][ (wpc' # wpc /\ (lcErr \/ lcErr'))
          => (State' = State /\ LiveSnapshot' = LiveSnapshot) ]_vars

\* C2 witness: a reload has failed while a snapshot was live.
C2_Witness == wpc = "lc_broadcast" /\ lcErr /\ State # 0

\* C3: under every interleaving of GetKey calls with reloads, a GetKey(k)
\* returns what a lookup of k gives in one fully built snapshot that was live
\* during the call (the one before or the one after a concurrent reload); the
\* published State never has a key index that misses a key of its Configs.
C3_ReadersSeeCompleteSnapshots ==
    /\ State # 0 => Complete(heap[State])
    /\ \A r \in Readers : rpc[r] = "done" =>
         /\ rres[r].snap \in 1..State
         /\ rres[r].snap >= rStart[r]
         /\ Complete(heap[rres[r].snap])
         /\ [err |-> rres[r].err, pos |-> rres[r].pos]
              = LookupIn(heap[rres[r].snap].Configs, rkey[r])

\* C3 witness: a GetKey has returned a Config from a snapshot published while
\* the call was under way.
C3_Witness ==
    \E r \in Readers : rpc[r] = "done" /\ rres[r].err = "nil" /\ rres[r].snap > rStart[r]

\* C4: a GetKey that starts after a successful reload has released the
\* exclusive lock is answered from that snapshot or a later one.
C4_LookupsSeeNewestReleased ==
    \A r \in Readers : rpc[r] = "done" => rres[r].snap >= rStart[r]

\* C4 witness: a GetKey that started after the second reload had released the
\* lock has returned.
C4_Witness == \E r \in Readers : rpc[r] = "done" /\ rStart[r] >= 2

\* C5: if a loadConfig call succeeds after Start (sm.State becomes non-nil),
\* the constructor blocked in init eventually returns: the wakeup is not lost
\* under any interleaving of init's Lock / check / Wait with the loader's
\* locked write of sm.State and its Broadcast outside the lock.
C5_ConstructorEventuallyReturns == (State # 0) ~> (ipc = "returned_ok")

\* C5 witness: a snapshot is published while init sleeps in cond.Wait.
C5_Witness == State # 0 /\ ipc = "i_sleep" /\ condWait = "listed"

\* C6: while the watcher runs and the file is changed finitely often, in place
\* or by rename-replacement, with a valid final content, the live snapshot
\* eventually equals the parse of that content and stays equal to it.
C6_Convergence ==
    <>[]((wpc # "notstarted" /\ Valid(file))
           => (State # 0 /\ heap[State].Configs = Unmarshal(file).Configs))

\* C6 witness: the loop is between dropping and re-adding the watch, no event
\* is pending, and the file holds valid content the snapshot does not have: a
\* change has landed while no watch was set.
C6_Witness ==
    /\ wpc = "ev_add" /\ ~watching /\ evq = <<>>
    /\ Valid(file) /\ State # 0
    /\ heap[State].Configs # Unmarshal(file).Configs

\* C7: when the watched path does not exist at the time of Start (at its
\* os.Stat, or at its watcher.Add), the constructor fails without entering
\* the wait; no loop goroutine is spawned and the callback is never invoked,
\* not even the eager call: nothing is ever loaded.
C7_MissingPathFailsStart ==
    ipc \in {"err_nopath", "err_add"} =>
        /\ wpc = "notstarted"
        /\ wg = 0
        /\ State = 0
        /\ heap = <<>>
        /\ condWait = "none"

\* C7 witness: Start has found no file at the path and the constructor has
\* returned the error.
C7_Witness == ipc = "err_nopath" /\ file = NoFile

\* C8: Stop, and so Close, returns only after the loop goroutine has exited:
\* once a Close has returned no callback is running and none starts, and the
\* live snapshot does not change any more.
C8_StopReturnsAfterLoopExit ==
    /\ [](nCloses >= 1 => wpc \in {"notstarted", "exited"})
    /\ [][ nCloses >= 1 => (State' = State /\ wpc' = wpc) ]_vars

\* C8 witness: Close has returned on a manager whose loop had been running.
C8_Witness == nCloses >= 1 /\ wpc = "exited" /\ State # 0

\* C9: shutdown terminates: once Stop has closed the watch handle the loop
\* goroutine exits, after the callback in flight at most, and Stop returns.
C9_StopTerminates ==
    /\ (cpc = "c_wait") ~> (cpc = "idle")
    /\ wclosed ~> (wpc \in {"notstarted", "exited"})

\* C9 witness: Stop waits while the callback is in flight, about to take the
\* exclusive lock that a reader holds in shared mode.
C9_Witness == cpc = "c_wait" /\ wpc = "ls_drain" /\ muR # {}

\* C10: Close is safe in every lifecycle state: with the watcher absent it
\* returns at once; on a watcher that was never started, and on a second call
\* after a completed Close, Stop's wait finds the counter at zero and returns;
\* no step of Close changes the snapshot.
C10_CloseIdempotent ==
    /\ []((cpc = "c_wait" /\ (wpc = "notstarted" \/ nCloses >= 1)) => wg = 0)
    /\ [](cpc # "idle" => watcher = "set")
    /\ [][ (cpc' # cpc \/ nCloses' # nCloses)
             => (State' = State /\ heap' = heap) ]_vars

\* C10 witness: a second Close has returned.
C10_Witness == nCloses >= 2 /\ cpc = "idle"

\* The positions of the records of configs that carry key.
At(configs, key) == {i \in 1..Len(configs) : configs[i].Key = key}

\* C11: when the loaded file holds several records with the same key, the
\* published snapshot maps the key to the record that comes last in the file,
\* and that record is what GetKey returns.
C11_LastWriteWins ==
    /\ State # 0 =>
          \A k \in Keys :
              Cardinality(At(heap[State].Configs, k)) >= 2 =>
                  /\ get(heap[State], k).err = "nil"
                  /\ \A i \in At(heap[State].Configs, k) : i <= get(heap[State], k).pos
    /\ \A r \in Readers :
          (rpc[r] = "done" /\ rres[r].err = "nil") =>
              \A i \in At(heap[rres[r].snap].Configs, rkey[r]) : i <= rres[r].pos

\* C11 witness: a GetKey has returned the later of two records with its key.
C11_Witness ==
    \E r \in Readers :
        /\ rpc[r] = "done" /\ rres[r].err = "nil"
        /\ \E i \in At(heap[rres[r].snap].Configs, rkey[r]) : i < rres[r].pos

\* The keys of the records of configs.
KeysOf(configs) == {configs[i].Key : i \in 1..Len(configs)}

\* C12: a successful reload replaces the snapshot wholesale. The State built
\* by a reload holds the records of the file it read; once published, a lookup
\* succeeds exactly for the keys of those records, with the record's raw value,
\* and a key of the previous snapshot that the new file lacks is ErrNotFound.
C12_ReloadReplacesWholesale ==
    /\ [][(wpc = "lc_read" /\ wpc' = "ls_lock") =>
             heap'[lcNew'].Configs = Unmarshal(file).Configs]_vars
    /\ [](State # 0 =>
             \A k \in Keys :
                 /\ (get(heap[State], k).err = "nil") <=> (k \in KeysOf(heap[State].Configs))
                 /\ get(heap[State], k).err = "nil" =>
                        heap[State].Configs[get(heap[State], k).pos].Key = k)
    /\ [](\A r \in Readers :
             rpc[r] = "done" =>
                 /\ (rres[r].err = "nil") <=> (rkey[r] \in KeysOf(heap[rres[r].snap].Configs))
                 /\ (rres[r].err = "nil") \/ (rres[r].err = "ErrNotFound")
                 /\ rres[r].err = "nil" =>
                        heap[rres[r].snap].Configs[rres[r].pos].Key = rkey[r])

\* C12 witness: a caller still holds the Config of a key it found in an
\* earlier snapshot, and the snapshot published since does not have the key.
C12_Witness ==
    \E r \in Readers :
        /\ rpc[r] = "done" /\ rres[r].err = "nil"
        /\ State # 0 /\ rres[r].snap < State
        /\ get(heap[State], rkey[r]).err = "ErrNotFound"

\* The raw value fits the Go type: json.Unmarshal into a value of that type
\* gives no error (JSON null fits every type).
Fits(raw, ty) ==
    \/ raw = "null"
    \/ ty = "bool" /\ raw \in {"true", "false"}
    \/ ty = "int64" /\ raw \in {"1", "2", "3", "256"}
    \/ ty = "uint8" /\ raw \in {"1", "2", "3"}
    \/ ty = "float64" /\ raw \in {"1", "2", "3", "256", "1.5", "0.9", "0.1"}
    \/ ty = "string" /\ raw = "\"a\""
    \/ ty = "map[int64]struct{}" /\ raw = "{\"3\":{}}"
    \/ ty = "map[string]struct{}" /\ raw \in {"{\"3\":{}}", "{\"x\":{}}"}

\* What a typed getter is to return for a key whose raw value is raw
\* ("absent" when the key is not there).
Expected(call, raw) ==
    IF raw = "absent" \/ ~Fits(raw, TypeOf(call.g)) THEN call.def
    ELSE View(call, unmarshalFn(raw, TypeOf(call.g)).val)

\* The raw value snapshot s holds for key, "absent" when it has none.
RawIn(s, key) ==
    IF LookupIn(s.Configs, key).err = "nil"
    THEN s.Configs[LookupIn(s.Configs, key).pos].RawValue
    ELSE "absent"

\* C13 as stated: for any n >= 1 consecutive calls of the same typed getter on
\* the same key against an unchanging snapshot of the real manager (the key
\* is present, and its Config has no memo before the first call), the raw
\* value is deserialized exactly once.
C13_AnyKeyOneUnmarshal ==
    (client = "real" /\ streak.n >= 1 /\ streak.raw # "absent" /\ streak.fresh) =>
        streak.unm = 1

\* C13, amended: for any n >= 1 consecutive calls of the same typed getter on
\* the same key against an unchanging snapshot of the real manager, where the
\* key is present and its raw value deserializes into the getter's type, the
\* raw value is deserialized exactly once; every later call is answered from
\* the memo and returns the same result.
C13_MemoizedOnce ==
    (client = "real" /\ streak.n >= 1 /\ streak.raw # "absent" /\ streak.fresh
                     /\ Fits(streak.raw, TypeOf(gcall.g))) =>
        /\ streak.unm = 1
        /\ streak.same
        /\ streak.res = Expected(gcall, streak.raw)

\* C13 witness: a second call in a row has been answered, with one
\* deserialization in all.
C13_Witness == client = "real" /\ gpc = "done" /\ streak.n >= 2 /\ streak.unm = 1

\* C14: every Config of a freshly published snapshot has an empty memo, and a
\* typed getter that starts after a reload has released the lock reads that
\* snapshot or a later one and returns what the raw value there gives.
C14_FreshMemoAfterReload ==
    /\ [][State' # State =>
             \A i \in 1..Len(heap'[State'].Configs) :
                 heap'[State'].Configs[i].parsedValue = NoMemo]_vars
    /\ []((client = "real" /\ gpc = "done") =>
             /\ gsrc >= gStart /\ gsrc >= 1
             /\ gres = Expected(gcall, RawIn(heap[gsrc], gcall.key)))

\* C14 witness: a getter that started after the second snapshot was released
\* has deserialized its value afresh.
C14_Witness ==
    client = "real" /\ gpc = "done" /\ gStart >= 2 /\ nCalls >= 2 /\ gunm = 1 /\ gwrote

\* C15: a typed getter returns the caller's default, and writes no memo, when
\* the key is absent or the raw value does not fit the getter's type (for
\* GetByte, an integer above 255); no call ends in a panic; on the null
\* manager every call returns its default.
C15_DefaultOnFailure ==
    (gpc = "done" /\ client \in {"real", "null", "dummy"}) =>
        /\ gres # "panic"
        /\ (graw = "absent" \/ ~Fits(graw, TypeOf(gcall.g))) =>
               (gres = gcall.def /\ ~gwrote)
        /\ client = "real" =>
               (graw = RawIn(heap[gsrc], gcall.key)
                /\ \A i \in 1..Len(heap[gsrc].Configs) :
                       heap[gsrc].Configs[i].parsedValue # NoMemo =>
                           Fits(heap[gsrc].Configs[i].RawValue,
                                heap[gsrc].Configs[i].parsedValue.ty))
        /\ client = "null" => (gres = gcall.def /\ graw = "absent")

\* C15 witness: GetByte has returned its default for the raw value 256.
C15_Witness ==
    /\ gpc = "done" /\ client = "real"
    /\ gcall.g = "GetByte" /\ graw = "256" /\ gres = gcall.def

\* C16 as stated: on the test double, after SetParsedValue(cfg, v) a
\* GetParsedValue(cfg) returns v.
C16_DummyMemoizes ==
    [][(client = "dummy" /\ gpc = "g_set" /\ gpc' = "done") =>
          GetParsedValue(gcfg)' = gval]_vars

\* C16, amended: the test double shares the lookup contract only. GetKey
\* returns the Config last set for the key; GetParsedValue returns nil also
\* after SetParsedValue, so every call on a present key deserializes; the
\* typed getters return what they return on a real manager that holds the
\* same key/value pairs.
C16_DummyLookupOnly ==
    client = "dummy" =>
        /\ nSets >= 1 =>
               (SmGetKey(dset.key).err = "nil" /\ SmGetKey(dset.key).cfg.raw = dset.raw)
        /\ gpv = NoMemo /\ ~gwrote
        /\ gpc = "done" =>
               /\ gres = Expected(gcall, graw)
               /\ graw # "absent" => gunm = 1

\* C16 witness: a second call on the test double has deserialized its value.
C16_Witness ==
    client = "dummy" /\ gpc = "done" /\ nCalls >= 2 /\ gunm = 1 /\ gres # gcall.def

\* C17 as stated: when NewClient fails it returns, with the error, a client
\* that behaves as a null client: its getters return the default.
C17_FailedNewClientIsNull ==
    (client # "none" /\ ipc \in {"err_watcher", "err_nopath", "err_add"}) =>
        /\ client = "null"
        /\ gpc = "done" => gres = gcall.def

\* C18: after a successful Start the loop goroutine calls the callback on the
\* watched path before it receives any event; Start returns nil at the spawn,
\* without waiting for that call; an error of the eager call leaves Start's
\* result alone and takes the loop to its select; with no event ever raised,
\* a file that parses is loaded.
C18_EagerCallback ==
    /\ [][(wpc = "notstarted" /\ wpc' # "notstarted") =>
             (wpc' = "lc_read" /\ evq' = evq /\ ipc = "st_go" /\ ipc' = "i_lock")]_vars
    /\ [](wpc # "notstarted" => ipc \notin {"err_watcher", "err_nopath", "err_add"})
    /\ [][(nChanges = 0 /\ wpc = "lc_broadcast" /\ lcErr /\ wpc' # wpc) =>
             (wpc' = "select" /\ wg' = wg /\ ipc' = ipc)]_vars
    /\ (wpc = "lc_read" /\ nChanges = 0 /\ Valid(file)) ~> (State # 0 \/ nChanges > 0)

\* C18 witness: the file was never touched, no event was ever raised, and the
\* loop waits in its select with the configuration loaded.
C18_Witness == wpc = "select" /\ nChanges = 0 /\ evq = <<>> /\ State # 0

\* C19: a callback that returns an error does not stop the loop: the loop
\* goes back to its select with its goroutine alive, and from then on every
\* event on the path still leads to a call of the callback, and a call that
\* parses the file publishes its State. (The file is changed in place or by
\* rename-replacement.)
C19_CallbackErrorKeepsLoop ==
    /\ [][(wpc = "lc_broadcast" /\ lcErr /\ wpc' # wpc) =>
             (wpc' = "select" /\ wg' = wg /\ wg >= 1)]_vars
    /\ []((wpc = "lc_broadcast" /\ lcErr) =>
             [](evq # <<>> => <>(wpc = "lc_read")))
    /\ []((wpc = "lc_broadcast" /\ lcErr) =>
             [](wpc = "ls_lock" => <>(wpc = "ls_unlock" /\ State = lcNew)))

\* C19 witness: a callback run for an event has failed while a snapshot was
\* live, and a further event waits to be received.
C19_Witness == wpc = "lc_broadcast" /\ lcErr /\ State # 0 /\ evq # <<>>

\* C20 as stated: after a remove or rename event whose re-registration failed
\* the watcher keeps watching: once a file that parses is at the path again
\* (the loop idle, no watch set, nothing queued), its content is eventually
\* loaded, unless the watcher is closed.
C20_SurvivesFailedReAdd ==
    (wpc = "select" /\ ~watching /\ evq = <<>> /\ ~wclosed /\ Valid(file)
        /\ (State = 0 \/ LiveSnapshot.Configs # Unmarshal(file).Configs))
    ~> (wclosed \/ (State # 0 /\ LiveSnapshot.Configs = Unmarshal(file).Configs))

\* C21: a successful reload never blocks on the update channel: notify is one
\* send attempt made after the snapshot has been swapped and the lock
\* released; a receiver waiting in a receive takes it, otherwise it is
\* dropped; loadConfig returns and the loop goes back to its select whether
\* or not anyone ever receives.
C21_NotifyNeverBlocks ==
    /\ [][(wpc = "ls_notify" /\ wpc' # wpc) =>
             /\ wpc' = "lc_broadcast"
             /\ State = lcNew /\ released = lcNew /\ muW # "loader"
             /\ rcv' = "busy"
             /\ dropped' = (rcv = "busy")]_vars
    /\ (wpc = "ls_notify") ~> (wpc = "select")

\* C21 witness: a reload has dropped its notification, no receiver waiting,
\* and the loop is back in its select.
C21_Witness == wpc = "select" /\ dropped /\ rcv = "busy" /\ State # 0

\* C22 as stated: a notification sent while the receiver was busy stays
\* pending: the receiver is never left blocked in a receive after a reload
\* that notified while it was not receiving.
C22_BusyReceiverIsNotified == rcv = "recv" => ~dropped

\* The probability a raw value configures, in tenths.
Prob(raw) ==
    CASE raw = "0.1" -> 1 [] raw = "0.9" -> 9 [] raw = "1" -> 10 [] raw = "2" -> 20
      [] raw = "3" -> 30 [] raw = "1.5" -> 15 [] raw = "256" -> 2560 [] raw = "null" -> 0

\* C23: IsFeatureEnabled(key, enabledByDefault) returns true exactly when the
\* draw is strictly less than the probability configured for key; for a key
\* that is not configured it returns enabledByDefault, whatever the draw.
C23_FeatureEnabled ==
    (client = "real" /\ gpc = "rolled") =>
        LET raw == RawIn(heap[gsrc], gcall.key) IN
            IF raw = "absent"
            THEN (gres = "true") <=> (gcall.def = "1")
            ELSE (gres = "true") <=> (gdraw < Prob(raw))

\* C23 witness: at a draw of 0.8 the flag configured at 0.9 is enabled.
C23_Witness ==
    /\ client = "real" /\ gpc = "rolled" /\ gdraw = 8
    /\ gcall.key = "foo" /\ graw = "0.9" /\ gres = "true"

\* C24: GetParsedValue and SetParsedValue act on the Config passed in.
\* SetParsedValue(cfg, v) makes GetParsedValue(cfg) return v and changes
\* nothing else: not the snapshot pointer, not any other State, not the key
\* index, keys, raw values or other memos of cfg's own State; so with cfg from
\* a superseded snapshot the live snapshot is left as it was. GetParsedValue
\* returns cfg's memo and changes nothing.
C24_ParsedValueOnGivenConfig ==
    /\ [][(client = "real" /\ gpc = "g_set" /\ gpc' = "done") =>
             /\ GetParsedValue(gcfg)' = gval
             /\ State' = State
             /\ \A i \in 1..Len(heap) : i # gcfg.snap => heap'[i] = heap[i]
             /\ gcfg.snap # State => LiveSnapshot' = LiveSnapshot
             /\ heap'[gcfg.snap].cache = heap[gcfg.snap].cache
             /\ \A j \in 1..Len(heap[gcfg.snap].Configs) :
                    /\ heap'[gcfg.snap].Configs[j].Key = heap[gcfg.snap].Configs[j].Key
                    /\ heap'[gcfg.snap].Configs[j].RawValue = heap[gcfg.snap].Configs[j].RawValue
                    /\ j # gcfg.pos => heap'[gcfg.snap].Configs[j].parsedValue
                                          = heap[gcfg.snap].Configs[j].parsedValue]_vars
    /\ [][(client = "real" /\ gpc = "g_pv" /\ gpc' # gpc) =>
             /\ gpv' = heap[gcfg.snap].Configs[gcfg.pos].parsedValue
             /\ heap' = heap /\ State' = State]_vars

\* C24 witness: a getter has written the memo of a Config of a superseded
\* snapshot, and the live Config of the same key has no memo.
C24_Witness ==
    /\ client = "real" /\ gpc = "done" /\ gwrote
    /\ gcfg.snap # 0 /\ gcfg.snap < State
    /\ heap[gcfg.snap].Configs[gcfg.pos].parsedValue = gval
    /\ get(heap[State], gcall.key).err = "nil"
    /\ heap[State].Configs[get(heap[State], gcall.key).pos].parsedValue = NoMemo

\* C25 as stated: constructed against a file that parses, under every
\* interleaving with filesystem events, the constructor returns when exactly
\* one successful load has completed.
C25_ExactlyOneLoadAtReturn ==
    [][(ipc = "i_unlock" /\ ipc' = "returned_ok") => State = 1]_vars

\* C25, amended: constructed against a file that parses, under every
\* interleaving with filesystem events, the constructor returns when at
\* least one successful load has completed (not zero; a load for an event
\* handled before init returns makes it more than one).
C25_AtLeastOneLoadAtReturn ==
    [][(ipc = "i_unlock" /\ ipc' = "returned_ok") =>
          (State >= 1 /\ released >= 1 /\ Complete(heap[State]))]_vars

\* C25 witness: init is about to return and two loads have been published.
C25_Witness == ipc = "i_unlock" /\ State = 2 /\ released = 2

\* The loop is inside the callback (loadConfig / loadState).
InCallback ==
    wpc \in {"lc_read", "ls_lock", "ls_drain", "ls_store", "ls_unlock", "ls_notify",
             "lc_broadcast"}

\* The loop receives the event at the head of the queue.
Receives == wpc = "select" /\ evq # <<>> /\ evq' = Tail(evq) /\ event' = Head(evq)

\* C26: for an event on the watched path with Op remove, rename or chmod the
\* loop drops the watch and registers a watch on the same path again; it
\* calls the callback, once, if and only if the registration succeeded; when
\* it failed the loop is back in its select, with no callback and no retry,
\* the watch left unset and the snapshot as it was.
C26_ResetThenCallback ==
    /\ [][(Receives /\ Head(evq).Name = Path
              /\ Head(evq).Op \in {"Remove", "Rename", "Chmod"}) =>
             (wpc' = "ev_remove" /\ watching' = watching /\ State' = State)]_vars
    /\ [][(wpc = "ev_remove" /\ wpc' # wpc) =>
             (wpc' = "ev_add" /\ ~watching' /\ event' = event /\ evq' = evq
              /\ State' = State /\ heap' = heap)]_vars
    /\ [][(wpc = "ev_add" /\ wpc' # wpc) =>
             IF AddOk
             THEN wpc' = "lc_read" /\ watching' /\ event' = event /\ evq' = evq
             ELSE wpc' = "select" /\ ~watching' /\ evq' = evq
                  /\ State' = State /\ heap' = heap]_vars
    /\ [][(InCallback /\ ~InCallback') => wpc' = "select"]_vars
    /\ [][(~InCallback /\ InCallback') => wpc \in {"notstarted", "select", "ev_add"}]_vars

\* C26 witness: the callback runs for a rename event, the watch set again.
C26_Witness == wpc = "lc_read" /\ event = Event("Rename") /\ watching

\* C27: for an event on the watched path with Op create or write the loop
\* calls the callback, once, on the watched path, and neither that step nor
\* the callback touches the watch.
C27_CreateWriteCallback ==
    /\ [][(Receives /\ Head(evq).Name = Path /\ Head(evq).Op \in {"Create", "Write"}) =>
             (wpc' = "lc_read" /\ watching' = watching)]_vars
    /\ [][(InCallback /\ event.Op \in {"Create", "Write"} /\ wpc' # wpc) =>
             (watching' = watching /\ event.Name = Path
              /\ (~InCallback' => wpc' = "select"))]_vars
    /\ [][(wpc = "lc_read" /\ wpc' = "ls_lock") =>
             heap'[lcNew'].Configs = Unmarshal(file).Configs]_vars

\* C27 witness: the callback has published a snapshot for a create event.
C27_Witness == wpc = "ls_unlock" /\ event = Event("Create") /\ State = lcNew

\* C28: an event named after another path, or with an Op that is none of
\* create, write, remove, rename, chmod, changes nothing: no callback, the
\* watch, the snapshot and the goroutine count as they were, the loop in its
\* select.
C28_OtherEventsIgnored ==
    [][(Receives /\ (Head(evq).Name # Path
                       \/ Head(evq).Op \notin {"Create", "Write", "Remove", "Rename", "Chmod"})) =>
          (wpc' = "select" /\ watching' = watching /\ State' = State /\ heap' = heap
           /\ wg' = wg /\ lcErr' = lcErr /\ lcNew' = lcNew)]_vars

\* C28 witness: the loop is in its select, having dropped an event named
\* after another path, with a snapshot live and the watch set.
C28_Witness == wpc = "select" /\ event.Name = OtherPath /\ State # 0 /\ watching

\* C29 as stated: for every file content a call of loadConfig either
\* publishes a complete new snapshot or returns an error and leaves the
\* snapshot untouched (unreadable file, text that is not JSON, JSON that is
\* not an array, an array with a null or non-object element); the reload
\* never crashes the process.
C29_LoadPublishesOrFails ==
    /\ [](wpc # "panic")
    /\ [][(wpc = "lc_read" /\ wpc' # wpc) =>
             \/ wpc' = "ls_lock" /\ Complete(heap'[lcNew']) /\ State' = State
             \/ wpc' = "lc_broadcast" /\ lcErr' /\ State' = State /\ heap' = heap]_vars
    /\ [][State' # State => (State' = lcNew /\ Complete(heap'[State']))]_vars

\* C30 as stated: the memo of a Config instance is written at most once in
\* the instance's lifetime, also by getters of different types on its key:
\* a getter's SetParsedValue only ever finds the memo empty.
C30_MemoWrittenAtMostOnce ==
    [][(client = "real" /\ gpc = "g_set" /\ gpc' = "done") =>
          heap[gcfg.snap].Configs[gcfg.pos].parsedValue = NoMemo]_vars

\* C31: a typed getter (GetBoolean, GetInt64, GetFloat64, GetString, GetByte)
\* works on one Config: the value it memoizes onto the Config it fetched by
\* key is the deserialization of that same Config's raw value, also when a
\* reload replaces the snapshot between the lookup and the deserialization.
C31_MemoOfFetchedConfig ==
    [][(client = "real" /\ gpc = "g_set" /\ gpc' = "done"
            /\ gcall.g \in {"GetBoolean", "GetInt64", "GetFloat64", "GetString", "GetByte"}) =>
          /\ Fits(gcfg.raw, TypeOf(gcall.g))
          /\ GetParsedValue(gcfg)' = unmarshalFn(gcfg.raw, TypeOf(gcall.g)).val]_vars

\* C35: every Config reachable from the live snapshot of the real manager
\* whose memo is set holds a typed deserialization of its own raw value, under
\* every interleaving of typed getters and reloads; and a typed getter that
\* fetched a Config returns what the raw value of the key gives in the
\* snapshot it looked the key up in or in a later one, never in an older one.
C35_LiveMemoOfOwnRaw ==
    /\ (client = "real" /\ State # 0) =>
           \A i \in 1..Len(heap[State].Configs) :
               LET c == heap[State].Configs[i] IN
                   c.parsedValue # NoMemo =>
                       /\ Fits(c.RawValue, c.parsedValue.ty)
                       /\ c.parsedValue = unmarshalFn(c.RawValue, c.parsedValue.ty).val
    /\ (client = "real" /\ gpc = "done" /\ gcfg # NoCfg) =>
           /\ gsrc >= gcfg.snap
           /\ gres = Expected(gcall, RawIn(heap[gsrc], gcall.key))

\* C35 witness: a reload came between a getter's lookup and its
\* deserialization; the getter has returned the value of the new snapshot and
\* written it onto the Config it had fetched from the superseded one, and the
\* Config of the key in the live snapshot is left without a memo.
C35_Witness ==
    /\ client = "real" /\ gpc = "done" /\ gwrote
    /\ gcfg # NoCfg /\ gcfg.snap < gsrc /\ State = gsrc
    /\ heap[gcfg.snap].Configs[gcfg.pos].parsedValue # NoMemo
    /\ \A i \in At(heap[State].Configs, gcall.key) :
           heap[State].Configs[i].parsedValue = NoMemo

\* C34: reloads of one state manager are serialized. The constructor starts
\* the loop goroutine once; a callback reads the file only when the State
\* built by the read before it has been published (two loadConfig calls never
\* overlap); each publication installs the State of the latest read, so
\* States are published in the order of their reads and one built from a
\* later read is never replaced by one built from an earlier read.
C34_ReloadsSerialized ==
    /\ [][wg' > wg => (wg = 0 /\ wpc = "notstarted" /\ ipc = "st_go")]_vars
    /\ [][(wpc = "notstarted")' => wpc = "notstarted"]_vars
    /\ [][Len(heap') > Len(heap) =>
             (wpc = "lc_read" /\ State = Len(heap) /\ lcNew' = Len(heap'))]_vars
    /\ [][(wpc = "ls_store" /\ wpc' # wpc) =>
             (State' = lcNew /\ lcNew = Len(heap) /\ State' > State)]_vars
    /\ [][State' # State => wpc = "ls_store"]_vars

\* C34 witness: two reads have each been published, in their order, and the
\* loop is back at its select.
C34_Witness == wpc = "select" /\ Len(heap) = 2 /\ State = 2 /\ released = 2

\* A memo field of a Config that stays on the heap changes in this step.
MemoWritten ==
    \E i \in 1..Len(heap) :
        /\ Len(heap'[i].Configs) = Len(heap[i].Configs)
        /\ \E j \in 1..Len(heap[i].Configs) :
               heap'[i].Configs[j].parsedValue # heap[i].Configs[j].parsedValue

\* C32: lock discipline of the real state manager. sm.State is written only
\* by the loader while it holds sm.mu exclusively (no reader inside), and read
\* by init under the exclusive lock and by GetKey under the shared lock; a
\* memo field is written only by SetParsedValue with the lock free of every
\* other holder, and read by the getters only while no writer holds the lock.
\* So no write of the pointer or of a memo overlaps another access to it.
C32_LockDiscipline ==
    /\ [](wpc = "ls_store" => (muW = "loader" /\ muR = {}))
    /\ [](ipc = "i_check" => (muW = "init" /\ muR = {}))
    /\ [](\A r \in Readers : rpc[r] = "r_locked" =>
              (r \in muR /\ wpc # "ls_store" /\ muW # "init"))
    /\ [][State' # State => (wpc = "ls_store" /\ muW = "loader" /\ muR = {})]_vars
    /\ [][MemoWritten => (client = "real" /\ gpc = "g_set" /\ muW = "none" /\ muR = {})]_vars
    /\ [][(client = "real" /\ gpc \in {"g_getkey", "g_pv", "g_unmarshal"} /\ gpc' # gpc) =>
             muW = "none"]_vars

\* C32 witness: a getter is about to write a memo while a caller of GetKey
\* holds the shared lock, so SetParsedValue has to wait for it.
C32_Witness ==
    /\ client = "real" /\ gpc = "g_set"
    /\ \E r \in Readers : rpc[r] = "r_locked" /\ r \in muR

\* C33: when a non-nil update channel is passed to NewStateManager, every
\* successful reload attempts its non-blocking notification on that very
\* channel: a receiver blocked in a receive on the supplied channel at the
\* time of the reload's notify receives the notification.
C33_SuppliedChannelNotified ==
    [][(wpc = "ls_notify" /\ wpc' # wpc /\ rcv = "recv_ch") =>
          (rcv' = "busy" /\ ~dropped')]_vars

\* C36: CallCounter is a correct barrier. Wait(n) returns only in a state
\* where at least n Incr calls have taken effect; the count is the number of
\* Incr calls that passed their increment and never decreases; a Wait(n) that
\* finds n <= count (Wait(0) on a fresh counter too) returns without waiting
\* on the condition; and a Wait(n) in progress returns once the count has
\* reached n, under every interleaving of concurrent Incr and Wait calls
\* (Incr broadcasts after it released the mutex, yet no wakeup is lost).
C36_CallCounterBarrier ==
    /\ [](\A w \in Waiters : waitpc[w] = "returned" => counterN >= expected[w])
    /\ [](counterN = nIncrs - Cardinality({p \in Goroutines : incrpc[p] \in {"i_lock", "i_incr"}}))
    /\ [][counterN' >= counterN]_vars
    /\ [][\A w \in Waiters :
             (waitpc[w] = "w_check" /\ waitpc'[w] # "w_check" /\ counterN >= expected[w]) =>
                 waitpc'[w] = "w_unlock"]_vars
    /\ \A w \in Waiters :
           (waitpc[w] \notin {"idle", "returned"} /\ counterN >= expected[w])
               ~> (waitpc[w] = "returned")

\* C36 witness: both waiters have returned from Wait(2), after two Incr calls
\* that have run to their end.
C36_Witness ==
    /\ \A w \in Waiters : waitpc[w] = "returned" /\ expected[w] = 2
    /\ counterN = 2
    /\ \A p \in Goroutines : incrpc[p] = "idle"

\* The States of the callbacks that have returned: every State built but the
\* one of a callback still running.
Completed == IF InCallback /\ lcNew # 0 THEN Len(heap) - 1 ELSE Len(heap)

\* C37: in the test-support watcher the counter is incremented exactly once
\* per callback invocation and only after the wrapped callback has returned,
\* on success and on error alike: every return of the callback starts one
\* Incr, the loop goes on only when that Incr is through, and the count
\* changes in no other step. So when NotifyCounter.Wait(k) has returned, k
\* callbacks have completed, and the State of every successful callback that
\* has completed has been published (the live one is it or a later one).
C37_CountedAfterCallback ==
    /\ [][counterN' # counterN =>
             /\ counterN' = counterN + 1
             /\ wpc = "incr" /\ wpc' = "incr"
             /\ incrpc[TheLoop] = "i_incr" /\ incrpc'[TheLoop] = "i_unlock"]_vars
    /\ [][(InCallback /\ ~InCallback') =>
             (wpc = "lc_broadcast" /\ wpc' = "incr" /\ incrpc'[TheLoop] = "i_lock"
              /\ counterN' = counterN)]_vars
    /\ [][(incrpc[TheLoop] = "i_incr")' => incrpc[TheLoop] \in {"i_lock", "i_incr"}]_vars
    /\ [][(wpc = "incr" /\ wpc' # "incr") =>
             (wpc' = "select" /\ incrpc[TheLoop] = "i_broadcast" /\ incrpc'[TheLoop] = "idle")]_vars
    /\ [](wpc = "incr" <=> incrpc[TheLoop] # "idle")
    /\ [](State >= Completed)
    /\ [](waitpc[1] = "returned" => counterN >= expected[1])

\* C37 witness: Wait(2) has returned on a count of 2: the eager callback
\* published its State and the callback for the change of the file failed.
C37_Witness ==
    /\ waitpc[1] = "returned" /\ expected[1] = 2
    /\ counterN = 2 /\ wpc = "select"
    /\ Len(heap) = 1 /\ State = 1

====
